---- MODULE Spec2Model ----
(***************************************************************************)
(* A model of sb3-diff: the script parser that renders a target's flat     *)
(* block map to canonical text and fingerprints it, the Myers line diff,   *)
(* the script matcher, the keyed-collection diff, generateDiff, and the    *)
(* replay loop of the reconstruct command.                                 *)
(*                                                                         *)
(* JavaScript strings are sequences of one-character strings, so that      *)
(* concatenation, trimming, the textual replacement of block ids, the      *)
(* 32-bit rolling hash and JSON.stringify are computed as the code         *)
(* computes them.  JavaScript values are tagged records.                   *)
(***************************************************************************)
EXTENDS Integers, Sequences, FiniteSets, TLC

VARIABLES
  oldRaw,      \* the old project (a sequence of targets), as read from project.json
  newRaw,      \* the new project
  pc,          \* position of the command being modelled
  diff,        \* the Diff returned by generateDiff: its items, whether it threw,
               \* and what each round of its loop over the targets worked with
  isReverse,   \* the --reverse flag of the reconstruct command
  baseRaw,     \* the object baseRaw of the reconstruct command, as the command leaves it
  newProject,  \* the project rebuilt by the replay loop
  lineA,       \* line diff: the old line sequence
  lineB,       \* line diff: the new line sequence
  textDiff,    \* line diff: the TextDiffResult of diffText
  walk,        \* the state of one script walk (parser.ts / extractor.ts loops)
  summary,     \* the DiffSummary that generateEnhancedDiff returns with the diff
  baseLoaded,  \* the base project as the reconstruct command extracted it
  formatted    \* the hunks that formatDiff wrote for textDiff

vars == <<oldRaw, newRaw, pc, diff, isReverse, baseRaw, newProject, lineA, lineB, textDiff, walk,
          summary, baseLoaded, formatted>>

----------------------------------------------------------------------------
(* JavaScript strings *)

\* The printable ASCII characters, in code order starting at code 32 (the grave
\* accent, code 96, cannot be written in a TLA+ string and is never used).
Ascii ==
  <<" ","!","\"","#","$","%","&","'","(",")","*","+",",","-",".","/",
    "0","1","2","3","4","5","6","7","8","9",":",";","<","=",">","?",
    "@","A","B","C","D","E","F","G","H","I","J","K","L","M","N","O",
    "P","Q","R","S","T","U","V","W","X","Y","Z","[","\\","]","^","_",
    "grave","a","b","c","d","e","f","g","h","i","j","k","l","m","n","o",
    "p","q","r","s","t","u","v","w","x","y","z","{","|","}","~">>

\* String.prototype.charCodeAt for one character.
CharCode ==
  [c \in {Ascii[i] : i \in 1..Len(Ascii)} \cup {"\t", "\n"} |->
     IF c = "\t" THEN 9
     ELSE IF c = "\n" THEN 10
     ELSE 31 + (CHOOSE i \in 1..Len(Ascii) : Ascii[i] = c)]

HexDigits == <<"0","1","2","3","4","5","6","7","8","9","a","b","c","d","e","f">>

\* Op applied to e: names a value that is read in several places
With(e, Op(_)) == Op(e)

IsSpace(c) == c \in {" ", "\t", "\n"}

Least(S) == CHOOSE i \in S : \A j \in S : i <= j

\* String.prototype.trimStart / trimEnd / trim
\* (k is the number of white-space characters at that end)
TrimStart(s) ==
  LET k == CHOOSE k \in 0..Len(s) :
             /\ \A j \in 1..k : IsSpace(s[j])
             /\ k = Len(s) \/ ~IsSpace(s[k + 1])
  IN  SubSeq(s, k + 1, Len(s))

TrimEnd(s) ==
  LET k == CHOOSE k \in 0..Len(s) :
             /\ \A j \in 1..k : IsSpace(s[Len(s) + 1 - j])
             /\ k = Len(s) \/ ~IsSpace(s[Len(s) - k])
  IN  SubSeq(s, 1, Len(s) - k)

Trim(s) == TrimStart(TrimEnd(s))

\* String.prototype.repeat(n)
Repeat(s, n) ==
  IF n <= 0 \/ s = <<>> THEN <<>>
  ELSE [i \in 1..(n * Len(s)) |-> s[((i - 1) % Len(s)) + 1]]

\* String.prototype.substring(0, n)
Substring0(s, n) == SubSeq(s, 1, IF Len(s) < n THEN Len(s) ELSE n)

StartsWithAt(s, i, pat) ==
  /\ i + Len(pat) - 1 <= Len(s)
  /\ SubSeq(s, i, i + Len(pat) - 1) = pat

\* String.prototype.replace(new RegExp(pat, 'g'), rep) for a literal pattern:
\* every non-overlapping occurrence, scanning from the left.
RECURSIVE ReplaceFrom(_, _, _, _)
ReplaceFrom(s, i, pat, rep) ==
  LET hits == {j \in i..Len(s) : StartsWithAt(s, j, pat)}
  IN  IF hits = {} THEN SubSeq(s, i, Len(s))
      ELSE SubSeq(s, i, Least(hits) - 1) \o rep
           \o ReplaceFrom(s, Least(hits) + Len(pat), pat, rep)

ReplaceAll(s, pat, rep) == IF pat = <<>> THEN s ELSE ReplaceFrom(s, 1, pat, rep)

\* String.prototype.split('\n'): the pieces between newlines ("" gives [""]).
SplitLines(s) ==
  LET nl == {i \in 1..Len(s) : s[i] = "\n"}
      \* the position of the k-th newline; 0 before the first, Len(s) + 1 after the last
      cut(k) == IF k = 0 THEN 0
                ELSE IF k > Cardinality(nl) THEN Len(s) + 1
                ELSE CHOOSE p \in nl : Cardinality({q \in nl : q < p}) = k - 1
  IN  [k \in 1..(Cardinality(nl) + 1) |-> SubSeq(s, cut(k - 1) + 1, cut(k) - 1)]

\* The concatenation of parts[lo..hi], with sep between neighbours.
RECURSIVE JoinRange(_, _, _, _)
JoinRange(parts, sep, lo, hi) ==
  IF lo > hi THEN <<>>
  ELSE IF lo = hi THEN parts[lo]
  ELSE LET mid == (lo + hi) \div 2
       IN  JoinRange(parts, sep, lo, mid) \o sep \o JoinRange(parts, sep, mid + 1, hi)

\* Array.prototype.join(sep)
Join(parts, sep) == JoinRange(parts, sep, 1, Len(parts))

----------------------------------------------------------------------------
(* JavaScript values (as JSON.parse builds them) *)

Undefined == [t |-> "undefined"]
Null      == [t |-> "null"]
Bool(b)   == [t |-> "boolean", v |-> b]
Num(n)    == [t |-> "number", v |-> n]
Str(s)    == [t |-> "string", v |-> s]
Arr(a)    == [t |-> "array", v |-> a]
\* An object is its properties in insertion order: a sequence of <<key, value>>.
Obj(ps)   == [t |-> "object", v |-> ps]

\* ToBoolean
Truthy(x) ==
  CASE x.t = "undefined" -> FALSE
    [] x.t = "null"      -> FALSE
    [] x.t = "boolean"   -> x.v
    [] x.t = "number"    -> x.v # 0
    [] x.t = "string"    -> x.v # <<>>
    [] OTHER             -> TRUE

\* a || b
Or(a, b) == IF Truthy(a) THEN a ELSE b

HasKey(o, k) == o.t = "object" /\ \E i \in 1..Len(o.v) : o.v[i][1] = k

\* o[k] (property read; undefined when absent, and for array positions past the end)
Get(o, k) ==
  IF HasKey(o, k)
  THEN o.v[CHOOSE i \in 1..Len(o.v) : o.v[i][1] = k][2]
  ELSE Undefined

\* a[i] for a 0-based index
At(a, i) ==
  IF a.t = "array" /\ i + 1 \in 1..Len(a.v) THEN a.v[i + 1] ELSE Undefined

Keys(o) == [i \in 1..Len(o.v) |-> o.v[i][1]]

\* Number.prototype.toString() for an integer
RECURSIVE Digits(_)
Digits(n) ==
  IF n < 0 THEN <<"-">> \o Digits(0 - n)
  ELSE IF n < 10 THEN <<HexDigits[n + 1]>>
  ELSE Digits(n \div 10) \o <<HexDigits[(n % 10) + 1]>>

\* The quoted form JSON.stringify gives a string: each character, escaped.
Quote(s) ==
  Join([i \in 1..Len(s) |->
          CASE s[i] = "\"" -> <<"\\", "\"">>
            [] s[i] = "\\" -> <<"\\", "\\">>
            [] s[i] = "\n" -> <<"\\", "n">>
            [] s[i] = "\t" -> <<"\\", "t">>
            [] OTHER       -> <<s[i]>>], <<>>)

Quoted(s) == <<"\"">> \o Quote(s) \o <<"\"">>

\* JSON.stringify(value): object properties in insertion order, properties whose
\* value is undefined left out, undefined array elements written as null.
RECURSIVE Stringify(_)
RECURSIVE StringifyElems(_)
RECURSIVE StringifyProps(_, _)
Stringify(x) ==
  CASE x.t = "null"    -> <<"n","u","l","l">>
    [] x.t = "boolean" -> IF x.v THEN <<"t","r","u","e">> ELSE <<"f","a","l","s","e">>
    [] x.t = "number"  -> Digits(x.v)
    [] x.t = "string"  -> Quoted(x.v)
    [] x.t = "array"   -> <<"[">> \o StringifyElems(x.v) \o <<"]">>
    [] x.t = "object"  -> <<"{">> \o StringifyProps(x.v, TRUE) \o <<"}">>

StringifyElems(a) ==
  IF a = <<>> THEN <<>>
  ELSE (IF Head(a).t = "undefined" THEN <<"n","u","l","l">> ELSE Stringify(Head(a)))
       \o (IF Len(a) > 1 THEN <<",">> ELSE <<>>)
       \o StringifyElems(Tail(a))

StringifyProps(ps, first) ==
  IF ps = <<>> THEN <<>>
  ELSE IF Head(ps)[2].t = "undefined" THEN StringifyProps(Tail(ps), first)
  ELSE (IF first THEN <<>> ELSE <<",">>)
       \o Quoted(Head(ps)[1]) \o <<":">> \o Stringify(Head(ps)[2])
       \o StringifyProps(Tail(ps), FALSE)

----------------------------------------------------------------------------
(* generateFingerprint (script-parser): a 32-bit rolling hash, in hex *)

\* A 32-bit integer is kept as its two 16-bit halves <<high, low>> of the
\* two's-complement bit pattern.
Half == 256 * 256

\* hash << 5
Shl5(h) ==
  LET lo == h[2] * 32
      hi == h[1] * 32 + (lo \div Half)
  IN  <<hi % Half, lo % Half>>

\* (a - b) wrapped to 32 bits
Sub32(a, b) ==
  LET lo == a[2] - b[2]
      borrow == IF lo < 0 THEN 1 ELSE 0
      hi == a[1] - b[1] - borrow
  IN  <<(hi + Half) % Half, (lo + Half) % Half>>

\* (a + c) wrapped to 32 bits, for a character code c
Add32(a, c) ==
  LET lo == a[2] + c
      hi == a[1] + (lo \div Half)
  IN  <<hi % Half, lo % Half>>

\* hash = ((hash << 5) - hash) + char; hash = hash & hash
HashStep(h, c) == Add32(Sub32(Shl5(h), h), c)

\* A value of the 32-bit range.
IsInt32(h) == h[1] \in 0..(Half - 1) /\ h[2] \in 0..(Half - 1)

\* The loop over text[lo..hi], starting from hash h: the characters are folded in
\* from left to right.  The range is halved, and the hash of the left half is
\* looked at before the right half starts, only to keep TLC's evaluation shallow.
RECURSIVE HashRange(_, _, _, _)
HashRange(text, lo, hi, h) ==
  IF lo > hi THEN h
  ELSE IF lo = hi THEN HashStep(h, CharCode[text[lo]])
  ELSE LET mid == (lo + hi) \div 2
           left == HashRange(text, lo, mid, h)
       IN  IF IsInt32(left) THEN HashRange(text, mid + 1, hi, left) ELSE left

\* Math.abs of the signed 32-bit value, again as two halves (2^31 is <<32768, 0>>).
Abs32(h) ==
  IF h[1] < 32768 THEN h
  ELSE <<(Half - 1 - h[1]) + (IF h[2] = 0 THEN 1 ELSE 0), (Half - h[2]) % Half>>

Hex4(n) ==
  <<HexDigits[(n \div 4096) + 1], HexDigits[((n \div 256) % 16) + 1],
    HexDigits[((n \div 16) % 16) + 1], HexDigits[(n % 16) + 1]>>

\* Math.abs(hash).toString(16).padStart(8, '0')
generateFingerprint(text) ==
  LET a == Abs32(HashRange(text, 1, Len(text), <<0, 0>>))
  IN  Hex4(a[1]) \o Hex4(a[2])

----------------------------------------------------------------------------
(* The script parser: parseScriptWithBlocks, parseSpriteScripts, getTopLevelIds *)

(* A target's block map is the sequence of its <<id, block>> entries in the     *)
(* order of Object.keys.  A block is a record of JavaScript values:             *)
(*   opcode (the characters of the opcode), next, parent, inputs, fields,       *)
(*   mutation, shadow, topLevel, x, y.                                          *)

HasBlock(blocks, id) == \E i \in 1..Len(blocks) : blocks[i][1] = id

BlockAt(blocks, id) == blocks[CHOOSE i \in 1..Len(blocks) : blocks[i][1] = id][2]

BlockIds(blocks) == [i \in 1..Len(blocks) |-> blocks[i][1]]

kCONDITION == <<"C","O","N","D","I","T","I","O","N">>
kSUBSTACK  == <<"S","U","B","S","T","A","C","K">>
kSUBSTACK2 == <<"S","U","B","S","T","A","C","K","2">>

\* some(value): "" for undefined, null, {} and [], else JSON.stringify(value)
some(value) ==
  IF value.t \in {"undefined", "null"} THEN <<>>
  ELSE IF Stringify(value) \in {<<"{", "}">>, <<"[", "]">>} THEN <<>>
  ELSE Stringify(value)

\* for (const key of blockIds) info = info.replace(new RegExp(`"${key}"`, 'g'), '"id"')
RECURSIVE ReplaceIds(_, _, _)
ReplaceIds(info, ids, i) ==
  IF i > Len(ids) THEN info
  ELSE ReplaceIds(ReplaceAll(info, Quoted(ids[i]), <<"\"", "i", "d", "\"">>), ids, i + 1)

\* The info of a block line: inputs, fields and mutation, trimmed, ids replaced.
BlockInfo(blocks, block) ==
  ReplaceIds(Trim(some(block.inputs) \o <<" ">> \o some(block.fields) \o <<" ">>
                  \o some(block.mutation)),
             BlockIds(blocks), 1)

\* `${"\t".repeat(script.depth + 1)}${block.opcode} ${info}\n`
BlockLine(blocks, block, depth) ==
  Repeat(<<"\t">>, depth + 1) \o block.opcode \o <<" ">> \o BlockInfo(blocks, block)
  \o <<"\n">>

\* The BlockText pushed for a block, from its line blockText (its `original`, a
\* copy of the raw block, is left out: nothing reads it).
BlockTextOf(blockText, depth) ==
  LET trimmedText == Trim(blockText)
  IN  [text        |-> trimmedText,
       fingerprint |-> generateFingerprint(trimmedText),
       depth       |-> depth + 1]

\* block.inputs && block.inputs[slot], when it is an array whose [1] is a string:
\* the id the slot refers to; otherwise no nested script is parsed.
SlotRefers(block, slot) ==
  /\ Truthy(block.inputs)
  /\ Truthy(Get(block.inputs, slot))
  /\ Get(block.inputs, slot).t = "array"
  /\ At(Get(block.inputs, slot), 1).t = "string"

SlotId(block, slot) == At(Get(block.inputs, slot), 1)

Threw == [text |-> <<>>, blocks |-> <<>>, threw |-> TRUE]

\* parseScriptWithBlocks: the while loop from currentId on, with the output and
\* the blocks gathered so far.  Reading a property of a block that is not in the
\* map throws a TypeError (threw).  The walk is followed as the code follows it:
\* on a block map with a cycle the code does not return, and neither does this.
RECURSIVE ParseLoop(_, _, _, _, _, _)
ParseLoop(blocks, currentId, depth, elseClause, output, acc) ==
  IF ~Truthy(currentId) THEN [text |-> output, blocks |-> acc, threw |-> FALSE]
  ELSE IF ~HasBlock(blocks, currentId.v) THEN Threw
  ELSE
    LET block == BlockAt(blocks, currentId.v)
        blockText == BlockLine(blocks, block, depth)
        out1  == output
                 \o (IF elseClause
                     THEN Repeat(<<"\t">>, depth) \o <<"e", "l", "s", "e", "\n">>
                     ELSE <<>>)
                 \o blockText
        acc1  == Append(acc, BlockTextOf(blockText, depth))
        none  == [text |-> <<>>, blocks |-> <<>>, threw |-> FALSE]
        cond  == IF SlotRefers(block, kCONDITION)
                 THEN ParseLoop(blocks, SlotId(block, kCONDITION), 0, FALSE, <<>>, <<>>)
                 ELSE none
        out2  == IF SlotRefers(block, kCONDITION)
                 THEN TrimEnd(out1) \o cond.text
                 ELSE out1
        sub   == IF SlotRefers(block, kSUBSTACK)
                 THEN ParseLoop(blocks, SlotId(block, kSUBSTACK), depth + 1, FALSE,
                                <<>>, <<>>)
                 ELSE none
        sub2  == IF SlotRefers(block, kSUBSTACK2)
                 THEN ParseLoop(blocks, SlotId(block, kSUBSTACK2), depth + 1, TRUE,
                                <<>>, <<>>)
                 ELSE none
    IN  IF cond.threw \/ sub.threw \/ sub2.threw THEN Threw
        ELSE ParseLoop(blocks, block.next, depth, elseClause,
                       out2 \o sub.text \o sub2.text,
                       acc1 \o cond.blocks \o sub.blocks \o sub2.blocks)

parseScriptWithBlocks(blocks, startId, depth, elseClause) ==
  ParseLoop(blocks, startId, depth, elseClause, <<>>, <<>>)

\* getTopLevelIds: the ids of the entries whose block.topLevel is truthy, in
\* the order of Object.entries.
getTopLevelIds(blocks) ==
  LET tops == {i \in 1..Len(blocks) : Truthy(blocks[i][2].topLevel)}
      nth(k) == CHOOSE i \in tops : Cardinality({j \in tops : j < i}) = k - 1
  IN  [k \in 1..Cardinality(tops) |-> blocks[nth(k)][1]]

HexValue(c) == (CHOOSE i \in 1..16 : HexDigits[i] = c) - 1

\* a.localeCompare(b) < 0 for two fingerprints: both are eight lower-case hex
\* digits, which collate as digits before letters, each in its own order.
FingerprintBefore(a, b) ==
  \E i \in 1..Len(a) :
    /\ \A j \in 1..(i - 1) : a[j] = b[j]
    /\ HexValue(a[i]) < HexValue(b[i])

\* Array.prototype.sort by fingerprint (a stable sort): the place of entry i.
SortedPlace(scripts, i) ==
  1 + Cardinality({j \in 1..Len(scripts) :
                     \/ FingerprintBefore(scripts[j].fingerprint, scripts[i].fingerprint)
                     \/ (j < i /\ scripts[j].fingerprint = scripts[i].fingerprint)})

SortByFingerprint(scripts) ==
  [k \in 1..Len(scripts) |->
     scripts[CHOOSE i \in 1..Len(scripts) : SortedPlace(scripts, i) = k]]

\* The ScriptText pushed for one top-level id, from the result of its walk (its
\* `original`, the block map itself, is left out: nothing reads it).
ScriptTextOf(scriptResult, topId) ==
  LET scriptText == Trim(scriptResult.text)
  IN  [text        |-> scriptText,
       fingerprint |-> generateFingerprint(scriptText),
       blocks      |-> scriptResult.blocks,
       topId       |-> topId]

\* parseSpriteScripts: one ScriptText per top id, sorted by fingerprint; threw
\* when a walk read a block that is not in the map.
parseSpriteScripts(blocks, topIds) ==
  With(<<>> \o [k \in 1..Len(topIds) |->
                  parseScriptWithBlocks(blocks, Str(topIds[k]), 0 - 1, FALSE)],
       LAMBDA results :
    [scripts |-> <<>> \o SortByFingerprint(
                   <<>> \o [k \in 1..Len(topIds) |-> ScriptTextOf(results[k], topIds[k])]),
     threw   |-> \E k \in 1..Len(topIds) : results[k].threw])

----------------------------------------------------------------------------
(* The line diff: myersDiff, reconstructEditScript, diffText *)

(* The numbers the algorithm keeps in V and in the trace are JavaScript numbers: *)
(* Num(n), NaN, or undefined when Map.get finds no entry.                        *)

NaN == [t |-> "NaN"]

IsNum(x) == x.t = "number"

\* x < y, x > y, x >= y on JavaScript numbers: false when either side is not one
JsLess(x, y) == IsNum(x) /\ IsNum(y) /\ x.v < y.v

JsAtLeast(x, y) == IsNum(x) /\ IsNum(y) /\ x.v >= y.v

\* x + n and x - n
JsPlus(x, n) == IF IsNum(x) THEN Num(x.v + n) ELSE NaN

JsMinus(x, y) == IF IsNum(x) /\ IsNum(y) THEN Num(x.v - y.v) ELSE NaN

\* Map: a function on the keys set so far
MapHas(m, k) == k \in DOMAIN m

MapGet(m, k) == IF k \in DOMAIN m THEN m[k] ELSE Undefined

MapSet(m, k, x) == [j \in (DOMAIN m) \cup {k} |-> IF j = k THEN x ELSE m[j]]

EmptyMap == [j \in {} |-> Undefined]

\* while (x < N && y < M && a[x] === b[y]) { x++; y++ }: the x it ends with
RECURSIVE Slide(_, _, _, _)
Slide(a, b, x, y) ==
  IF /\ JsLess(x, Num(Len(a)))
     /\ JsLess(y, Num(Len(b)))
     /\ a[x.v + 1] = b[y.v + 1]
  THEN Slide(a, b, JsPlus(x, 1), JsPlus(y, 1))
  ELSE x

\* a[i] for a 0-based index: undefined past either end
LineAt(a, i) == IF i + 1 \in 1..Len(a) THEN a[i + 1] ELSE Undefined

\* reconstructEditScript, one round of its loop for d, with the script built so
\* far.  trace.get(d) is undefined for a d the search never reached, and reading
\* .has of it throws a TypeError (threw).
RECURSIVE ReconstructFrom(_, _, _, _, _, _, _)
ReconstructFrom(a, b, trace, d, x, y, script) ==
  IF d < 0 THEN [changes |-> script, threw |-> FALSE]
  ELSE IF ~MapHas(trace, d) THEN [changes |-> <<>>, threw |-> TRUE]
  ELSE
    LET k     == x - y
        prevK == IF MapHas(trace[d], k - 1) THEN k - 1 ELSE k + 1
        prevX == MapGet(trace[d], prevK)
        prevY == JsMinus(prevX, Num(prevK))
        \* the diagonal steps: as long as x > prevX and y > prevY
        diag  == IF IsNum(prevX)
                 THEN (IF x - prevX.v < y - prevY.v THEN x - prevX.v ELSE y - prevY.v)
                 ELSE 0
        n     == IF diag > 0 THEN diag ELSE 0
        x1    == x - n
        y1    == y - n
        keeps == [i \in 1..n |-> [type |-> "keep", line |-> LineAt(a, x1 + i - 1)]]
        down  == JsLess(prevX, Num(x1))
        right == ~down /\ JsLess(prevY, Num(y1))
        x2    == IF down THEN x1 - 1 ELSE x1
        y2    == IF right THEN y1 - 1 ELSE y1
        step  == IF down THEN <<[type |-> "remove", line |-> LineAt(a, x2)]>>
                 ELSE IF right THEN <<[type |-> "add", line |-> LineAt(b, y2)]>>
                 ELSE <<>>
        out   == step \o keeps \o script
    IN  IF x2 = 0 /\ y2 = 0 THEN [changes |-> out, threw |-> FALSE]
        ELSE ReconstructFrom(a, b, trace, d - 1, x2, y2, out)

reconstructEditScript(a, b, trace) ==
  ReconstructFrom(a, b, trace, Len(a) + Len(b), Len(a), Len(b), <<>>)

\* The search started as Myers' algorithm starts it, with V.set(1, 0)
MyersStartAtOne == [V |-> MapSet(EmptyMap, 1, Num(0)), trace |-> EmptyMap]

\* The state of the search after V.set(0, 0)
MyersStart == [V |-> MapSet(EmptyMap, 0, Num(0)), trace |-> EmptyMap]

\* One pass of the inner loop, for diagonal k of round d: the x it reaches, V and
\* the trace after it, and whether the end of both sequences was reached.
MyersVisit(a, b, d, k, st) ==
  LET down == \/ k = 0 - d
              \/ (k # d /\ JsLess(MapGet(st.V, k - 1), MapGet(st.V, k + 1)))
      x0   == IF down THEN MapGet(st.V, k + 1) ELSE JsPlus(MapGet(st.V, k - 1), 1)
      y0   == JsMinus(x0, Num(k))
      x    == Slide(a, b, x0, y0)
      y    == JsMinus(x, Num(k))
      row  == IF MapHas(st.trace, d) THEN st.trace[d] ELSE EmptyMap
  IN  [V     |-> MapSet(st.V, k, x),
       trace |-> MapSet(st.trace, d, MapSet(row, k, x)),
       found |-> JsAtLeast(x, Num(Len(a))) /\ JsAtLeast(y, Num(Len(b)))]

\* for (d = 0; d <= MAX; d++) for (k = -d; k <= d; k += 2), from (d, k) on.
\* The fallback after the loops returns the empty script.
RECURSIVE MyersFrom(_, _, _, _, _)
MyersFrom(a, b, d, k, st) ==
  IF d > Len(a) + Len(b) THEN [changes |-> <<>>, threw |-> FALSE]
  ELSE IF k > d THEN MyersFrom(a, b, d + 1, 0 - (d + 1), st)
  ELSE With(MyersVisit(a, b, d, k, st), LAMBDA after :
         IF after.found THEN reconstructEditScript(a, b, after.trace)
         ELSE MyersFrom(a, b, d, k + 2, [V |-> after.V, trace |-> after.trace]))

\* myersDiff(a, b): the edit script, or a TypeError out of reconstructEditScript
myersDiff(a, b) == MyersFrom(a, b, 0, 0, MyersStart)

CountType(changes, type) == Cardinality({i \in 1..Len(changes) : changes[i].type = type})

\* diffText(oldText, newText): the lines of both, their edit script, and its counts
diffLines(oldLines, newLines) ==
  With(myersDiff(oldLines, newLines), LAMBDA r :
    [added   |-> CountType(r.changes, "add"),
     removed |-> CountType(r.changes, "remove"),
     changes |-> r.changes,
     threw   |-> r.threw])

diffText(oldText, newText) == diffLines(SplitLines(oldText), SplitLines(newText))

\* flushGroup, called when the loop has read the operations up to place last.
\* A group without a change is dropped and the line numbers stay as they are;
\* any other group is written as one hunk: its header, then its lines, each of
\* which moves the line numbers on.  (first, the place of the group's first
\* operation in the edit script, is kept for reference: the text does not
\* hold it.)
flushGroup(st, last) ==
  IF st.group = <<>> THEN st
  ELSE IF \A i \in 1..Len(st.group) : st.group[i].type = "keep"
  THEN [st EXCEPT !.group = <<>>]
  ELSE [lineNumOld |-> st.lineNumOld + CountType(st.group, "remove")
                         + CountType(st.group, "keep"),
        lineNumNew |-> st.lineNumNew + CountType(st.group, "add")
                         + CountType(st.group, "keep"),
        group      |-> <<>>,
        output     |-> Append(st.output,
                         [startOld |-> st.lineNumOld,
                          oldCount |-> Len(st.group) - CountType(st.group, "add"),
                          startNew |-> st.lineNumNew,
                          newCount |-> Len(st.group) - CountType(st.group, "remove"),
                          first    |-> last + 1 - Len(st.group),
                          changes  |-> st.group])]

\* formatDiff, its loop over result.changes from place i on, then the last flush
RECURSIVE FormatFrom(_, _, _)
FormatFrom(changes, i, st) ==
  IF i > Len(changes) THEN flushGroup(st, Len(changes))
  ELSE IF changes[i].type = "keep" /\ Len(st.group) + 1 > 1
  THEN FormatFrom(changes, i + 1, flushGroup([st EXCEPT !.group = Append(@, changes[i])], i))
  ELSE FormatFrom(changes, i + 1, [st EXCEPT !.group = Append(@, changes[i])])

\* formatDiff(result): the hunks written after the three lines that name the files
formatDiff(result) ==
  FormatFrom(result.changes, 1,
             [lineNumOld |-> 1, lineNumNew |-> 1, group |-> <<>>, output |-> <<>>]).output

----------------------------------------------------------------------------
(* The diff engine: matchProjects, matchScripts, the keyed-collection diffs, *)
(* createResourceMap, diffBlocks, generateDiff                               *)

(* A project is a sequence of targets.  A target is a record: its name, its  *)
(* variables and lists (objects), its costumes and sounds (arrays), and its  *)
(* block map, a sequence of <<id, block>> in the order of Object.entries.    *)

kAssetId == <<"a","s","s","e","t","I","d">>
kMd5ext  == <<"m","d","5","e","x","t">>
kName    == <<"n","a","m","e">>

\* The entries of seq at the positions in S, in their order.
Pick(seq, S) ==
  LET nth(k) == CHOOSE i \in S : Cardinality({j \in S : j < i}) = k - 1
  IN  [k \in 1..Cardinality(S) |-> seq[nth(k)]]

\* A Map kept as its entries <<key, value>> in insertion order.
EntryHas(entries, key) == \E i \in 1..Len(entries) : entries[i][1] = key

EntryGet(entries, key) ==
  entries[CHOOSE i \in 1..Len(entries) : entries[i][1] = key][2]

EntrySet(entries, key, value) ==
  IF EntryHas(entries, key)
  THEN [i \in 1..Len(entries) |->
          IF entries[i][1] = key THEN <<key, value>> ELSE entries[i]]
  ELSE Append(entries, <<key, value>>)

EntryDelete(entries, key) ==
  Pick(entries, {i \in 1..Len(entries) : entries[i][1] # key})

\* Object.keys(o) with o[key]: the entries of an object, keyed by string values
ObjectEntries(o) == [i \in 1..Len(o.v) |-> <<Str(o.v[i][1]), o.v[i][2]>>]

\* resource.assetId || resource.md5ext
ResourceId(r) == Or(Get(r, kAssetId), Get(r, kMd5ext))

\* createResourceMap: the loop from resource i on.  A resource with neither id
\* is keyed by Math.random().toString(), the draw made at place <<where, i>>.
RECURSIVE ResourceMapFrom(_, _, _, _, _)
ResourceMapFrom(resources, draws, where, i, map) ==
  IF i > Len(resources) THEN map
  ELSE LET id == IF Truthy(ResourceId(resources[i]))
                 THEN ResourceId(resources[i])
                 ELSE draws[Append(where, i)]
       IN  ResourceMapFrom(resources, draws, where, i + 1,
                           EntrySet(map, id, resources[i]))

createResourceMap(resources, draws, where) ==
  ResourceMapFrom(resources.v, draws, where, 1, <<>>)

\* A DiffItem; a property the code leaves out is undefined.
DiffItem(type, targetName, old, new, fingerprint, d) ==
  [type |-> type, targetName |-> targetName, old |-> old, new |-> new,
   fingerprint |-> fingerprint, diff |-> d]

\* The two loops shared by diffVariables, diffLists, diffCostumes and diffSounds:
\* first the keys of old that new lacks, then the keys of new, added or edited.
DiffEntries(kind, oldEntries, newEntries, targetName) ==
  LET gone    == Pick(oldEntries, {i \in 1..Len(oldEntries) :
                                     ~EntryHas(newEntries, oldEntries[i][1])})
      differs(i) ==
        \/ ~EntryHas(oldEntries, newEntries[i][1])
        \/ Stringify(EntryGet(oldEntries, newEntries[i][1])) # Stringify(newEntries[i][2])
      changed == Pick(newEntries, {i \in 1..Len(newEntries) : differs(i)})
  IN  [i \in 1..Len(gone) |->
         DiffItem(kind \o "-delete", targetName, gone[i][2], Undefined, gone[i][1],
                  Undefined)]
      \o
      [i \in 1..Len(changed) |->
         IF EntryHas(oldEntries, changed[i][1])
         THEN DiffItem(kind \o "-edit", targetName, EntryGet(oldEntries, changed[i][1]),
                       changed[i][2], changed[i][1], Undefined)
         ELSE DiffItem(kind \o "-add", targetName, Undefined, changed[i][2],
                       changed[i][1], Undefined)]

diffVariables(oldVariables, newVariables, targetName) ==
  DiffEntries("variable", ObjectEntries(oldVariables), ObjectEntries(newVariables),
              targetName)

diffLists(oldLists, newLists, targetName) ==
  DiffEntries("list", ObjectEntries(oldLists), ObjectEntries(newLists), targetName)

diffCostumes(oldCostumes, newCostumes, targetName, draws) ==
  DiffEntries("costume",
              createResourceMap(oldCostumes, draws, <<targetName, "old", "costumes">>),
              createResourceMap(newCostumes, draws, <<targetName, "new", "costumes">>),
              targetName)

diffSounds(oldSounds, newSounds, targetName, draws) ==
  DiffEntries("sound",
              createResourceMap(oldSounds, draws, <<targetName, "old", "sounds">>),
              createResourceMap(newSounds, draws, <<targetName, "new", "sounds">>),
              targetName)

\* new Map(scripts.map(script => [script.fingerprint, script]))
RECURSIVE ScriptMapFrom(_, _, _)
ScriptMapFrom(scripts, i, map) ==
  IF i > Len(scripts) THEN map
  ELSE ScriptMapFrom(scripts, i + 1, EntrySet(map, scripts[i].fingerprint, scripts[i]))

ScriptMap(scripts) == ScriptMapFrom(scripts, 1, <<>>)

WithoutFingerprint(scripts, fingerprint) ==
  Pick(scripts, {i \in 1..Len(scripts) : scripts[i].fingerprint # fingerprint})

\* matchScripts, first loop: the entries of oldScriptMap from entry i on
RECURSIVE ExactPhase(_, _, _)
ExactPhase(oldScriptMap, i, st) ==
  IF i > Len(oldScriptMap) THEN st
  ELSE LET fingerprint == oldScriptMap[i][1]
       IN  IF EntryHas(st.newScriptMap, fingerprint)
           THEN ExactPhase(oldScriptMap, i + 1,
                  [matchedScripts |->
                     Append(st.matchedScripts,
                            [oldScript |-> oldScriptMap[i][2],
                             newScript |-> EntryGet(st.newScriptMap, fingerprint)]),
                   unmatchedOldScripts |->
                     WithoutFingerprint(st.unmatchedOldScripts, fingerprint),
                   unmatchedNewScripts |->
                     WithoutFingerprint(st.unmatchedNewScripts, fingerprint),
                   newScriptMap |-> EntryDelete(st.newScriptMap, fingerprint)])
           ELSE ExactPhase(oldScriptMap, i + 1, st)

\* hasCommonStart alone
CommonStart(oldScript, newScript) ==
  Substring0(oldScript.text, 20) = Substring0(newScript.text, 20)

\* lengthRatio > 0.7 && hasCommonStart (0 / 0 is NaN, and NaN > 0.7 is false)
Similar(oldScript, newScript) ==
  LET a == Len(oldScript.text)
      b == Len(newScript.text)
      minLength == IF a < b THEN a ELSE b
      maxLength == IF a < b THEN b ELSE a
  IN  /\ 10 * minLength > 7 * maxLength
      /\ Substring0(oldScript.text, 20) = Substring0(newScript.text, 20)

\* matchScripts, second loop: the old scripts left unmatched from place i on.
\* The best match is the first similar new script; it leaves the unmatched list.
RECURSIVE HeuristicPhase(_, _, _)
HeuristicPhase(olds, i, st) ==
  IF i > Len(olds) THEN st
  ELSE LET news == st.unmatchedNewScripts
           fits == {j \in 1..Len(news) : Similar(olds[i], news[j])}
       IN  IF fits = {} THEN HeuristicPhase(olds, i + 1, st)
           ELSE HeuristicPhase(olds, i + 1,
                  [st EXCEPT
                     !.matchedScripts =
                        Append(@, [oldScript |-> olds[i], newScript |-> news[Least(fits)]]),
                     !.unmatchedNewScripts =
                        Pick(news, (1..Len(news)) \ {Least(fits)})])

matchScripts(oldScripts, newScripts) ==
  LET exact == ExactPhase(ScriptMap(oldScripts), 1,
                 [matchedScripts |-> <<>>,
                  unmatchedOldScripts |-> oldScripts,
                  unmatchedNewScripts |-> newScripts,
                  newScriptMap |-> ScriptMap(newScripts)])
      st    == HeuristicPhase(exact.unmatchedOldScripts, 1, exact)
      m     == st.matchedScripts
      matchedNewFingerprints == {m[i].newScript.fingerprint : i \in 1..Len(m)}
      matchedOldFingerprints == {m[i].oldScript.fingerprint : i \in 1..Len(m)}
  IN  [matchedScripts |-> m,
       unmatchedOldScripts |->
         Pick(st.unmatchedOldScripts,
              {i \in 1..Len(st.unmatchedOldScripts) :
                 st.unmatchedOldScripts[i].fingerprint \notin matchedOldFingerprints}),
       unmatchedNewScripts |->
         Pick(st.unmatchedNewScripts,
              {i \in 1..Len(st.unmatchedNewScripts) :
                 st.unmatchedNewScripts[i].fingerprint \notin matchedNewFingerprints})]

BlockTexts(script) == [i \in 1..Len(script.blocks) |-> script.blocks[i].text]

\* diffBlocks: the line diff of the block texts, one block-edit item if it counts
\* any change
diffBlocks(oldScript, newScript, targetName) ==
  With(diffText(Join(BlockTexts(oldScript), <<"\n">>),
                Join(BlockTexts(newScript), <<"\n">>)),
       LAMBDA d :
    [items |-> IF d.added > 0 \/ d.removed > 0
               THEN <<DiffItem("block-edit", targetName, Undefined, Undefined,
                               Str(oldScript.fingerprint),
                               [added |-> d.added, removed |-> d.removed])>>
               ELSE <<>>,
     threw |-> d.threw])

\* generateDiff, one round of the loop over the matched pairs: its items
MatchedItems(match, targetName) ==
  With(diffText(match.oldScript.text, match.newScript.text), LAMBDA d :
    IF d.threw THEN [items |-> <<>>, threw |-> TRUE]
    ELSE IF d.added > 0 \/ d.removed > 0
    THEN With(diffBlocks(match.oldScript, match.newScript, targetName),
              LAMBDA blockDiff :
           [items |->
              <<DiffItem("script-modify", targetName, match.oldScript, match.newScript,
                         Str(match.oldScript.fingerprint),
                         [added |-> d.added, removed |-> d.removed])>>
              \o blockDiff.items,
            threw |-> blockDiff.threw])
    ELSE [items |-> <<>>, threw |-> FALSE])

ScriptDeletes(scripts, targetName) ==
  [i \in 1..Len(scripts) |->
     DiffItem("script-delete", targetName, scripts[i], Undefined,
              Str(scripts[i].fingerprint), Undefined)]

ScriptAdds(scripts, targetName) ==
  [i \in 1..Len(scripts) |->
     DiffItem("script-add", targetName, Undefined, scripts[i],
              Str(scripts[i].fingerprint), Undefined)]

HasTarget(project, name) == \E i \in 1..Len(project) : project[i].name = name

\* targets.find(t => t.name === name): the first such target
FindTarget(project, name) ==
  project[Least({i \in 1..Len(project) : project[i].name = name})]

\* matchProjects: the names of the old targets, then those only new has
allTargetNames(oldIR, newIR) ==
  LET names == [i \in 1..Len(oldIR) |-> oldIR[i].name]
               \o [i \in 1..Len(newIR) |-> newIR[i].name]
  IN  Pick(names, {i \in 1..Len(names) : \A j \in 1..(i - 1) : names[j] # names[i]})

----------------------------------------------------------------------------
(* The IR pipeline: ProjectParser.parse, BlockNormalizer.normalize,            *)
(* BlockIRBuilder.buildIR, FingerprintGenerator, ScriptMatcher                 *)

\* ProjectParser.parse: the ids of the entries with topLevel and without shadow
topLevelBlockIds(blocks) ==
  Pick(BlockIds(blocks), {i \in 1..Len(blocks) :
                            Truthy(blocks[i][2].topLevel) /\ ~Truthy(blocks[i][2].shadow)})

\* reconstructScript: the normalized blocks from currentBlockId on, each linked
\* to the one after it, as a sequence.  The chain ends at a next that is null or
\* names no entry.  On a block map with a cycle the code does not return, and
\* neither does this.
RECURSIVE reconstructScript(_, _)
reconstructScript(blocks, currentBlockId) ==
  IF ~Truthy(currentBlockId) THEN <<>>
  ELSE IF ~HasBlock(blocks, currentBlockId.v) THEN <<>>
  ELSE <<[opcode   |-> BlockAt(blocks, currentBlockId.v).opcode,
          inputs   |-> BlockAt(blocks, currentBlockId.v).inputs,
          fields   |-> BlockAt(blocks, currentBlockId.v).fields,
          mutation |-> BlockAt(blocks, currentBlockId.v).mutation]>>
       \o reconstructScript(blocks, BlockAt(blocks, currentBlockId.v).next)

\* BlockNormalizer.normalizeInputs: [inputType, inputData] when the data is an
\* array, the input value as it is otherwise
normalizeInputs(inputs) ==
  Obj([i \in 1..Len(inputs.v) |->
         <<inputs.v[i][1],
           IF At(inputs.v[i][2], 1).t = "array"
           THEN Arr(<<At(inputs.v[i][2], 0), At(inputs.v[i][2], 1)>>)
           ELSE inputs.v[i][2]>>])

\* BlockNormalizer.normalizeBlock, for one block of the chain
normalizeBlock(block) ==
  [opcode   |-> block.opcode,
   inputs   |-> normalizeInputs(block.inputs),
   fields   |-> Or(block.fields, Obj(<<>>)),
   mutation |-> Or(block.mutation, Undefined)]

\* FingerprintGenerator.normalizeInputs: [inputType, inputData] of every input
semanticInputs(inputs) ==
  Obj([i \in 1..Len(inputs.v) |->
         <<inputs.v[i][1], Arr(<<At(inputs.v[i][2], 0), At(inputs.v[i][2], 1)>>)>>])

\* The order of Array.prototype.sort on the entries [key, value] of an object:
\* by the text key + "," + value, code unit by code unit (keys are distinct).
RECURSIVE TextBefore(_, _, _)
TextBefore(a, b, i) ==
  IF i > Len(a) THEN i <= Len(b)
  ELSE IF i > Len(b) THEN FALSE
  ELSE IF a[i] = b[i] THEN TextBefore(a, b, i + 1)
  ELSE CharCode[a[i]] < CharCode[b[i]]

KeyBefore(a, b) == TextBefore(a \o <<",">>, b \o <<",">>, 1)

\* sortKeys, the replacer: every object that is not an array gets its entries
\* sorted, and so do the values inside it
RECURSIVE sortKeys(_)
sortKeys(value) ==
  CASE value.t = "array"  -> Arr([i \in 1..Len(value.v) |-> sortKeys(value.v[i])])
    [] value.t = "object" ->
         Obj([k \in 1..Len(value.v) |->
                With(CHOOSE i \in 1..Len(value.v) :
                       Cardinality({j \in 1..Len(value.v) :
                                      KeyBefore(value.v[j][1], value.v[i][1])}) = k - 1,
                     LAMBDA i : <<value.v[i][1], sortKeys(value.v[i][2])>>)])
    [] OTHER -> value

\* Number.prototype.toString(16) of the eight hex digits: no leading zeros
RECURSIVE StripZeros(_)
StripZeros(digits) ==
  IF Len(digits) > 1 /\ Head(digits) = "0" THEN StripZeros(Tail(digits)) ELSE digits

\* simpleHash: the same rolling hash, Math.abs(hash).toString(16)
simpleHash(str) == StripZeros(generateFingerprint(str))

kOpcode   == <<"o","p","c","o","d","e">>
kFields   == <<"f","i","e","l","d","s">>
kMutation == <<"m","u","t","a","t","i","o","n">>
kInputs   == <<"i","n","p","u","t","s">>
kChildren == <<"c","h","i","l","d","r","e","n">>
kNext     == <<"n","e","x","t">>

\* createSemanticRepresentation of a BlockIR.  buildBlockIR takes a child only
\* from an input whose data is a pair with an object that has an opcode; the
\* inputs of a project.json hold ids and literals, so children is [].  next is
\* the fingerprint of the block after it, when there is one.
createSemanticRepresentation(block, hasNext, nextFingerprint) ==
  Obj(<< <<kOpcode, Str(block.opcode)>>,
         <<kFields, block.fields>>,
         <<kMutation, block.mutation>>,
         <<kInputs, semanticInputs(block.inputs)>>,
         <<kChildren, Arr(<<>>)>> >>
      \o (IF hasNext THEN << <<kNext, Str(nextFingerprint)>> >> ELSE <<>>))

\* generateBlockFingerprint of block i of the chain
RECURSIVE generateBlockFingerprint(_, _)
generateBlockFingerprint(chain, i) ==
  simpleHash(Stringify(sortKeys(
    createSemanticRepresentation(
      chain[i], i < Len(chain),
      IF i < Len(chain) THEN generateBlockFingerprint(chain, i + 1) ELSE <<>>))))

\* The ScriptIRs of a target after generateFingerprints.  place tells the
\* objects apart: two scripts with one fingerprint are two objects.
ScriptIRs(target) ==
  With(topLevelBlockIds(target.blocks), LAMBDA ids :
    [k \in 1..Len(ids) |->
       With(reconstructScript(target.blocks, Str(ids[k])), LAMBDA chain :
         [fingerprint |-> generateBlockFingerprint(
                            [i \in 1..Len(chain) |-> normalizeBlock(chain[i])], 1),
          place |-> k])])

\* A list that is left as it is
NoSplice(list, script) == list

\* list.splice(list.indexOf(script), 1); indexOf gives -1 for a script that is
\* not in the list, and splice(-1, 1) takes the last element out
SpliceOut(list, script) ==
  LET hits == {i \in 1..Len(list) : list[i] = script}
  IN  IF hits = {} THEN SubSeq(list, 1, Len(list) - 1)
      ELSE Pick(list, (1..Len(list)) \ {Least(hits)})

\* ScriptMatcher.matchScripts, its loop over the keys of oldScriptMap from entry i
RECURSIVE MatcherLoop(_, _, _, _)
MatcherLoop(oldScriptMap, newScriptMap, i, result) ==
  IF i > Len(oldScriptMap) THEN result
  ELSE IF EntryHas(newScriptMap, oldScriptMap[i][1])
  THEN MatcherLoop(oldScriptMap, newScriptMap, i + 1,
         [matchedScripts |->
            Append(result.matchedScripts,
                   [old |-> oldScriptMap[i][2],
                    new |-> EntryGet(newScriptMap, oldScriptMap[i][1])]),
          deletedScripts |-> SpliceOut(result.deletedScripts, oldScriptMap[i][2]),
          addedScripts   |-> SpliceOut(result.addedScripts,
                                       EntryGet(newScriptMap, oldScriptMap[i][1]))])
  ELSE MatcherLoop(oldScriptMap, newScriptMap, i + 1, result)

\* ScriptMatcher.matchScripts
matchIRScripts(oldScripts, newScripts) ==
  MatcherLoop(ScriptMap(oldScripts), ScriptMap(newScripts), 1,
              [matchedScripts |-> <<>>,
               deletedScripts |-> oldScripts,
               addedScripts   |-> newScripts])

\* ScriptMatcher.matchProjects: one result per target name
matchProjects(oldIR, newIR) ==
  With(allTargetNames(oldIR, newIR), LAMBDA names :
    [n \in 1..Len(names) |->
       [targetName |-> names[n],
        result |-> matchIRScripts(
                     IF HasTarget(oldIR, names[n])
                     THEN ScriptIRs(FindTarget(oldIR, names[n])) ELSE <<>>,
                     IF HasTarget(newIR, names[n])
                     THEN ScriptIRs(FindTarget(newIR, names[n])) ELSE <<>>)]])

ScriptsOf(target) == parseSpriteScripts(target.blocks, getTopLevelIds(target.blocks))

NoScripts == [scripts |-> <<>>, threw |-> FALSE]

NoMatch ==
  [matchedScripts |-> <<>>, unmatchedOldScripts |-> <<>>, unmatchedNewScripts |-> <<>>]

\* generateDiff, one round of the loop over the target names: the items it
\* pushes, whether it throws, and the scripts and the match it worked with
TargetRound(oldIR, newIR, targetName, draws) ==
  LET hasOld == HasTarget(oldIR, targetName)
      hasNew == HasTarget(newIR, targetName)
      old    == FindTarget(oldIR, targetName)
      new    == FindTarget(newIR, targetName)
      collections ==
        IF hasOld /\ hasNew
        THEN diffVariables(old.variables, new.variables, targetName)
             \o diffLists(old.lists, new.lists, targetName)
             \o diffCostumes(old.costumes, new.costumes, targetName, draws)
             \o diffSounds(old.sounds, new.sounds, targetName, draws)
        ELSE <<>>
  IN
  With(IF hasOld THEN ScriptsOf(old) ELSE NoScripts, LAMBDA oldParsed :
  With(IF hasNew THEN ScriptsOf(new) ELSE NoScripts, LAMBDA newParsed :
  With(IF hasOld /\ hasNew /\ ~oldParsed.threw /\ ~newParsed.threw
       THEN matchScripts(oldParsed.scripts, newParsed.scripts)
       ELSE NoMatch, LAMBDA m :
  With(<<>> \o [i \in 1..Len(m.matchedScripts) |->
                  MatchedItems(m.matchedScripts[i], targetName)], LAMBDA pairs :
    [targetName |-> targetName,
     items      |-> collections
                    \o (IF hasOld /\ hasNew
                        THEN Join([i \in 1..Len(pairs) |-> pairs[i].items], <<>>)
                             \o ScriptDeletes(m.unmatchedOldScripts, targetName)
                             \o ScriptAdds(m.unmatchedNewScripts, targetName)
                        ELSE IF hasOld THEN ScriptDeletes(oldParsed.scripts, targetName)
                        ELSE ScriptAdds(newParsed.scripts, targetName)),
     threw      |-> \/ oldParsed.threw
                    \/ newParsed.threw
                    \/ \E i \in 1..Len(pairs) : pairs[i].threw,
     compared   |-> hasOld /\ hasNew,
     oldScripts |-> oldParsed.scripts,
     newScripts |-> newParsed.scripts,
     scriptMatches |-> m]))))

\* generateDiff(oldIR, newIR): the Diff, or the exception that ends the command;
\* projectMatches is what ScriptMatcher.matchProjects returned for the two IRs,
\* rounds keeps what each round of the loop worked with
generateDiff(oldIR, newIR, draws) ==
  With(allTargetNames(oldIR, newIR), LAMBDA names :
  With(<<>> \o [i \in 1..Len(names) |-> TargetRound(oldIR, newIR, names[i], draws)],
       LAMBDA rounds :
  With(\E i \in 1..Len(rounds) : rounds[i].threw, LAMBDA threw :
    [items  |-> IF threw THEN <<>>
                ELSE Join([i \in 1..Len(rounds) |-> rounds[i].items], <<>>),
     threw  |-> threw,
     projectMatches |-> matchProjects(oldIR, newIR),
     rounds |-> [i \in 1..Len(rounds) |->
                   [targetName |-> rounds[i].targetName,
                    compared   |-> rounds[i].compared,
                    oldScripts |-> rounds[i].oldScripts,
                    newScripts |-> rounds[i].newScripts,
                    scriptMatches |-> rounds[i].scriptMatches]]])))

CountItems(items, type) == Cardinality({i \in 1..Len(items) : items[i].type = type})

\* The sum of item.diff.added (or removed) over the script-modify items
RECURSIVE ModifiedLines(_, _, _)
ModifiedLines(items, i, side) ==
  IF i > Len(items) THEN 0
  ELSE (IF items[i].type = "script-modify"
        THEN (IF side = "added" THEN items[i].diff.added ELSE items[i].diff.removed)
        ELSE 0)
       + ModifiedLines(items, i + 1, side)

\* calculateSummary: every counter starts at 0, and the switch over item.type
\* has a case for the script, block, variable, list, costume and sound types
calculateSummary(d) ==
  [targetsAdded      |-> 0,
   targetsDeleted    |-> 0,
   scriptsAdded      |-> CountItems(d.items, "script-add"),
   scriptsDeleted    |-> CountItems(d.items, "script-delete"),
   scriptsModified   |-> CountItems(d.items, "script-modify"),
   blocksAdded       |-> CountItems(d.items, "block-add") + ModifiedLines(d.items, 1, "added"),
   blocksDeleted     |-> CountItems(d.items, "block-delete")
                         + ModifiedLines(d.items, 1, "removed"),
   blocksModified    |-> CountItems(d.items, "block-edit"),
   variablesAdded    |-> CountItems(d.items, "variable-add"),
   variablesDeleted  |-> CountItems(d.items, "variable-delete"),
   variablesModified |-> CountItems(d.items, "variable-edit"),
   listsAdded        |-> CountItems(d.items, "list-add"),
   listsDeleted      |-> CountItems(d.items, "list-delete"),
   listsModified     |-> CountItems(d.items, "list-edit"),
   costumesAdded     |-> CountItems(d.items, "costume-add"),
   costumesDeleted   |-> CountItems(d.items, "costume-delete"),
   costumesModified  |-> CountItems(d.items, "costume-edit"),
   soundsAdded       |-> CountItems(d.items, "sound-add"),
   soundsDeleted     |-> CountItems(d.items, "sound-delete"),
   soundsModified    |-> CountItems(d.items, "sound-edit")]

----------------------------------------------------------------------------
(* The reconstruct command: the replay loop of handleReconstructCommand *)

\* JSON.parse(JSON.stringify(x)): properties whose value is undefined are gone,
\* undefined array elements come back as null.
RECURSIVE JsonClone(_)
JsonClone(x) ==
  CASE x.t = "array"  ->
         Arr([i \in 1..Len(x.v) |->
                IF x.v[i].t = "undefined" THEN Null ELSE JsonClone(x.v[i])])
    [] x.t = "object" ->
         LET kept == Pick(x.v, {i \in 1..Len(x.v) : x.v[i][2].t # "undefined"})
         IN  Obj([i \in 1..Len(kept) |-> <<kept[i][1], JsonClone(kept[i][2])>>])
    [] OTHER -> x

\* The copy of one block: each property through JSON, an undefined one absent.
CloneBlock(block) ==
  [f \in DOMAIN block |-> IF f = "opcode" THEN block[f] ELSE JsonClone(block[f])]

CloneTarget(target) ==
  [target EXCEPT
     !.variables = JsonClone(@), !.lists = JsonClone(@),
     !.costumes = JsonClone(@), !.sounds = JsonClone(@),
     !.blocks = [i \in 1..Len(@) |-> <<@[i][1], CloneBlock(@[i][2])>>]]

\* const newProject = JSON.parse(JSON.stringify(baseRaw))
CloneProject(project) == [i \in 1..Len(project) |-> CloneTarget(project[i])]

\* The diff as the reconstruct command reads it back from the diff file
ReadItem(item) ==
  [item EXCEPT !.old = IF "t" \in DOMAIN @ THEN JsonClone(@) ELSE @,
               !.new = IF "t" \in DOMAIN @ THEN JsonClone(@) ELSE @]

ReadItems(items) == [i \in 1..Len(items) |-> ReadItem(items[i])]

\* item.type.split('-')[1] and the part before the dash
TypeChange(type) ==
  CHOOSE change \in {"add", "delete", "edit", "modify"} :
    \E kind \in {"script", "block", "variable", "list", "costume", "sound"} :
      type = kind \o "-" \o change

TypeKind(type) ==
  CHOOSE kind \in {"script", "block", "variable", "list", "costume", "sound"} :
    \E change \in {"add", "delete", "edit", "modify"} : type = kind \o "-" \o change

\* The target the loop pushes for an item that names none: empty collections,
\* the name, default placement, and no block map (created marks those defaults).
ShellTarget(name) ==
  [name |-> name, variables |-> Obj(<<>>), lists |-> Obj(<<>>),
   costumes |-> Arr(<<>>), sounds |-> Arr(<<>>), blocks |-> <<>>, created |-> TRUE]

\* The types for which a missing target is created
CreatingTypes(reverse) ==
  IF reverse THEN {"script-delete", "block-delete", "costume-delete", "sound-delete"}
  ELSE {"script-add", "block-add", "costume-add", "sound-add"}

\* Reading .assetId of an item value that is undefined throws a TypeError; the
\* filter and findIndex callbacks read it once per resource.
IdReadThrows(resources, oldValue) == Len(resources.v) > 0 /\ oldValue.t = "undefined"

\* A replay that tells the resources apart by name: it drops every resource
\* that has the name of the item's old value
ApplyByName(resources, item, reverse) ==
  LET oldValue == IF reverse THEN item.new ELSE item.old
      newValue == IF reverse THEN item.old ELSE item.new
  IN  IF oldValue.t = "undefined" THEN Arr(Append(resources.v, newValue))
      ELSE Arr(Pick(resources.v,
                    {i \in 1..Len(resources.v) :
                       Get(resources.v[i], kName) # Get(oldValue, kName)}))

\* The resource list of a target after one costume- or sound- item
ApplyToResources(resources, item, reverse) ==
  LET changeType == TypeChange(item.type)
      oldValue   == IF reverse THEN item.new ELSE item.old
      newValue   == IF reverse THEN item.old ELSE item.new
      actualChangeType ==
        IF reverse
        THEN (IF changeType = "add" THEN "delete"
              ELSE IF changeType = "delete" THEN "add" ELSE changeType)
        ELSE changeType
      same(r) == ResourceId(r) = ResourceId(oldValue)
      hits    == {i \in 1..Len(resources.v) : same(resources.v[i])}
  IN  CASE actualChangeType = "add" -> Arr(Append(resources.v, newValue))
        [] actualChangeType = "delete" ->
             Arr(Pick(resources.v, (1..Len(resources.v)) \ hits))
        [] actualChangeType = "edit" ->
             IF hits = {} THEN resources
             ELSE Arr([resources.v EXCEPT ![Least(hits)] = newValue])
        [] OTHER -> resources

\* A round that replays every item on the sounds of its target, script and
\* block items too
ApplyUnguarded(project, item, reverse) ==
  IF ~HasTarget(project, item.targetName) THEN project
  ELSE [project EXCEPT
          ![Least({i \in 1..Len(project) : project[i].name = item.targetName})].sounds =
             ApplyToResources(@, item, reverse)]

\* One round of the loop over diff.items
ApplyItem(project, item, reverse) ==
  IF ~HasTarget(project, item.targetName)
  THEN IF item.type \in CreatingTypes(reverse)
       THEN Append(project, ShellTarget(item.targetName))
       ELSE project
  ELSE LET targetIndex == Least({i \in 1..Len(project) : project[i].name = item.targetName})
       IN  CASE TypeKind(item.type) = "costume" ->
                  [project EXCEPT ![targetIndex].costumes =
                                     ApplyToResources(@, item, reverse)]
             [] TypeKind(item.type) = "sound" ->
                  [project EXCEPT ![targetIndex].sounds =
                                     ApplyToResources(@, item, reverse)]
             [] OTHER -> project

ApplyThrows(project, item, reverse) ==
  /\ HasTarget(project, item.targetName)
  /\ TypeKind(item.type) \in {"costume", "sound"}
  /\ TypeChange(item.type) \in {"delete", "edit", "add"}
  /\ LET target == FindTarget(project, item.targetName)
         resources == IF TypeKind(item.type) = "costume" THEN target.costumes
                      ELSE target.sounds
         oldValue == IF reverse THEN item.new ELSE item.old
         actualAdd == TypeChange(item.type) = (IF reverse THEN "delete" ELSE "add")
     IN  ~actualAdd /\ IdReadThrows(resources, oldValue)

\* The loop from item i on: the project, or the TypeError that ends the command
RECURSIVE ReplayFrom(_, _, _, _)
ReplayFrom(project, items, i, reverse) ==
  IF i > Len(items) THEN [project |-> project, threw |-> FALSE]
  ELSE IF ApplyThrows(project, items[i], reverse)
  THEN [project |-> project, threw |-> TRUE]
  ELSE ReplayFrom(ApplyItem(project, items[i], reverse), items, i + 1, reverse)

Replay(base, items, reverse) ==
  ReplayFrom(CloneProject(base), ReadItems(items), 1, reverse)

\* The object that the name baseRaw refers to
BaseRawObject == "baseRaw"

\* The object that the loop writes to: newProject is what JSON.parse built, an
\* object of its own that shares nothing with baseRaw
newProjectObject == "parsed"

\* What the command keeps of the items the loop leaves out: the loop goes on to
\* the next item without a record, and only newProject is handed to createSb3.
ApplyReport(base, items, reverse) == <<>>

----------------------------------------------------------------------------
(* The projects compared: block maps, collections, targets *)

MaxScripts == 2
MaxAssets  == 2
MaxDraws   == 2

\* A RawBlock
Block(opcode, next, parent, inputs, fields, topLevel) ==
  [opcode |-> opcode, next |-> next, parent |-> parent, inputs |-> inputs,
   fields |-> fields, mutation |-> Undefined, shadow |-> Bool(FALSE),
   topLevel |-> Bool(topLevel), x |-> Num(0), y |-> Num(0)]

\* The id of block c of the script at place p
Id(c, p) == <<c>> \o Digits(p)

\* [shadow type, [primitive type, "text"]]: an input that holds a literal
Literal(type, text) == Arr(<<Num(1), Arr(<<Num(type), Str(text)>>)>>)

\* [2, id]: an input that refers to a block
Ref(id) == Arr(<<Num(2), Str(id)>>)

FlagBlock(p, next) ==
  <<Id("a", p), Block(<<"e","v","e","n","t","_","w","h","e","n","f","l","a","g","c","l","i","c","k","e","d">>, next, Null, Obj(<<>>), Obj(<<>>), TRUE)>>

MoveBlock(c, p, next, parent) ==
  <<Id(c, p), Block(<<"m","o","t","i","o","n","_","m","o","v","e","s","t","e","p","s">>, next, Str(parent),
                    Obj(<< <<<<"S","T","E","P","S">>, Literal(4, <<"1","0">>)>> >>), Obj(<<>>), FALSE)>>

WaitBlock(p) ==
  <<Id("c", p), Block(<<"c","o","n","t","r","o","l","_","w","a","i","t">>, Null, Str(Id("b", p)),
                      Obj(<< <<<<"D","U","R","A","T","I","O","N">>, Literal(5, <<"1">>)>> >>), Obj(<<>>), FALSE)>>

IfBlock(p) ==
  <<Id("b", p), Block(<<"c","o","n","t","r","o","l","_","i","f">>, Null, Str(Id("a", p)),
                      Obj(<< <<kCONDITION, Ref(Id("c", p))>>,
                             <<kSUBSTACK, Ref(Id("d", p))>> >>),
                      Obj(<<>>), FALSE)>>

KeyBlock(p, key) ==
  <<Id("c", p), Block(<<"s","e","n","s","i","n","g","_","k","e","y","p","r","e","s","s","e","d">>, Null, Str(Id("b", p)), Obj(<<>>),
                      Obj(<< <<<<"K","E","Y","_","O","P","T","I","O","N">>, Arr(<<Str(key), Null>>)>> >>), FALSE)>>

SayBlock(p, text) ==
  <<Id("a", p), Block(<<"l","o","o","k","s","_","s","a","y">>, Null, Null,
                      Obj(<< <<<<"M","E","S","S","A","G","E">>, Literal(10, text)>> >>), Obj(<<>>), TRUE)>>

\* A block map entry whose next names an id the map lacks
DanglingFlagBlock(p) == FlagBlock(p, Str(Id("z", p)))

\* [3, id, [4, "10"]]: an input that refers to a reporter block, over a literal
Over(id, type, text) == Arr(<<Num(3), Str(id), Arr(<<Num(type), Str(text)>>)>>)

\* move (reporter) steps: the STEPS slot refers to block c
MoveByBlock(p) ==
  <<Id("b", p), Block(<<"m","o","t","i","o","n","_","m","o","v","e","s","t","e","p","s">>, Null, Str(Id("a", p)),
                      Obj(<< <<<<"S","T","E","P","S">>, Over(Id("c", p), 4, <<"1","0">>)>> >>),
                      Obj(<<>>), FALSE)>>

ReporterBlock(p, opcode) ==
  <<Id("c", p), Block(opcode, Null, Str(Id("b", p)), Obj(<<>>), Obj(<<>>), FALSE)>>

\* move (steps), the steps a literal of any length
StepsBlock(p, steps) ==
  <<Id("b", p), Block(<<"m","o","t","i","o","n","_","m","o","v","e","s","t","e","p","s">>, Null, Str(Id("a", p)),
                      Obj(<< <<<<"S","T","E","P","S">>, Literal(4, steps)>> >>), Obj(<<>>), FALSE)>>

kXPosition == <<"m","o","t","i","o","n","_","x","p","o","s","i","t","i","o","n">>
kYPosition == <<"m","o","t","i","o","n","_","y","p","o","s","i","t","i","o","n">>

\* A text shadow that lies on the workspace on its own: topLevel and shadow
ShadowBlock(p) ==
  <<Id("a", p),
    [Block(<<"t","e","x","t">>, Null, Null, Obj(<<>>),
           Obj(<< <<<<"T","E","X","T">>, Arr(<<Str(<<"h","i">>), Null>>)>> >>), TRUE)
       EXCEPT !.shadow = Bool(TRUE)]>>

kSpace == <<"s","p","a","c","e">>
kUp    == <<"u","p">>

ScriptKinds == {"move", "wait", "space", "up", "Aa", "BB"}

\* The blocks of one script of the given kind, at place p of the block map:
\*   move   flag-clicked, move(10)
\*   wait   flag-clicked, move(10), wait(1)
\*   space  flag-clicked, if <key space pressed> then move(10)
\*   up     flag-clicked, if <key up pressed> then move(10)
\*   Aa BB  say "Aa", say "BB": two texts with one hash
\*   dangling    flag-clicked whose next is in no entry of the map
\*   danglingIf  flag-clicked, if <key space pressed> then a block in no entry
\*   xpos ypos   flag-clicked, move (x position) and move (y position)
\*   shadow      a top-level shadow block
\*   near far    flag-clicked, move(100) and move(a number of 30 digits)
ScriptBlocks(kind, p) ==
  CASE kind = "move"  -> <<FlagBlock(p, Str(Id("b", p))), MoveBlock("b", p, Null, Id("a", p))>>
    [] kind = "wait"  -> <<FlagBlock(p, Str(Id("b", p))),
                           MoveBlock("b", p, Str(Id("c", p)), Id("a", p)), WaitBlock(p)>>
    [] kind = "space" -> <<FlagBlock(p, Str(Id("b", p))), IfBlock(p), KeyBlock(p, kSpace),
                           MoveBlock("d", p, Null, Id("b", p))>>
    [] kind = "up"    -> <<FlagBlock(p, Str(Id("b", p))), IfBlock(p), KeyBlock(p, kUp),
                           MoveBlock("d", p, Null, Id("b", p))>>
    [] kind = "Aa"    -> <<SayBlock(p, <<"A", "a">>)>>
    [] kind = "BB"    -> <<SayBlock(p, <<"B", "B">>)>>
    [] kind = "dangling"   -> <<DanglingFlagBlock(p)>>
    [] kind = "danglingIf" -> <<FlagBlock(p, Str(Id("b", p))), IfBlock(p), KeyBlock(p, kSpace)>>
    [] kind = "xpos"   -> <<FlagBlock(p, Str(Id("b", p))), MoveByBlock(p),
                            ReporterBlock(p, kXPosition)>>
    [] kind = "ypos"   -> <<FlagBlock(p, Str(Id("b", p))), MoveByBlock(p),
                            ReporterBlock(p, kYPosition)>>
    [] kind = "shadow" -> <<ShadowBlock(p)>>
    [] kind = "near"   -> <<FlagBlock(p, Str(Id("b", p))), StepsBlock(p, <<"1","0","0">>)>>
    [] kind = "far"    -> <<FlagBlock(p, Str(Id("b", p))),
                            StepsBlock(p, [i \in 1..30 |-> "1"])>>

\* Block maps as editors and converters leave them: references to blocks that
\* are gone, reporters in input slots, shadows on the workspace
OddLists ==
  {<<"move">>, <<"move", "dangling">>, <<"danglingIf">>, <<"xpos">>, <<"ypos">>,
   <<"shadow">>, <<"move", "shadow">>}

\* Scripts that resemble each other in different degrees: by the length of
\* their texts (62, 63, 67 and 90 characters) move and near are similar to each
\* other and to xpos, far is similar to xpos alone (63 / 90 is 0.7)
GreedyLists == {<<"move", "far">>, <<"near", "xpos">>, <<"far">>}

KindLists == UNION {[1..n -> ScriptKinds] : n \in 0..MaxScripts}

\* The block map of a target whose scripts are of the given kinds
BlocksOf(kinds) == Join([p \in 1..Len(kinds) |-> ScriptBlocks(kinds[p], p)], <<>>)

\* Renamings of block ids, each injective on the ids of the maps above:
\*   fresh    every id gets a suffix
\*   swap     the first two ids of the first script change places
\*   literal  the first id becomes the word "space", which a field may also hold
Renamings == {"fresh", "swap", "literal"}

RenameId(r, id) ==
  CASE r = "fresh" -> id \o <<"x">>
    [] r = "swap" /\ id = Id("a", 1) -> Id("b", 1)
    [] r = "swap" /\ id = Id("b", 1) -> Id("a", 1)
    [] r = "literal" /\ id = Id("a", 1) -> kSpace
    [] OTHER -> id

\* A next or parent pointer, or the reference of an input slot, renamed
RenameRef(r, ids, x) ==
  IF x.t = "string" /\ x.v \in ids THEN Str(RenameId(r, x.v)) ELSE x

RenameInput(r, ids, input) ==
  IF input.t = "array"
  THEN Arr([i \in 1..Len(input.v) |-> RenameRef(r, ids, input.v[i])])
  ELSE input

RenameBlock(r, ids, block) ==
  [block EXCEPT
     !.next = RenameRef(r, ids, @),
     !.parent = RenameRef(r, ids, @),
     !.inputs = Obj([i \in 1..Len(block.inputs.v) |->
                       <<block.inputs.v[i][1],
                         RenameInput(r, ids, block.inputs.v[i][2])>>])]

\* r(B): the renaming applied to the keys, to next and parent, and to every
\* input slot that refers to a block
Rename(r, blocks) ==
  LET ids == {blocks[i][1] : i \in 1..Len(blocks)}
  IN  [i \in 1..Len(blocks) |->
         <<RenameId(r, blocks[i][1]), RenameBlock(r, ids, blocks[i][2])>>]

Reverse(s) == [i \in 1..Len(s) |-> s[Len(s) + 1 - i]]

\* The same block map with the keys of every inputs and fields map inserted in
\* the opposite order
Reordered(blocks) ==
  [i \in 1..Len(blocks) |->
     <<blocks[i][1], [blocks[i][2] EXCEPT !.inputs = Obj(Reverse(@.v)),
                                          !.fields = Obj(Reverse(@.v))]>>]

\* The same block map after the blocks were dragged about in the editor and
\* saved by a writer that keeps no parent pointers: other x and y, parent null
Moved(blocks) ==
  [i \in 1..Len(blocks) |->
     <<blocks[i][1], [blocks[i][2] EXCEPT !.x = Num(5), !.y = Num(7), !.parent = Null]>>]

Asset(props) == Obj([i \in 1..Len(props) |-> <<props[i][1], Str(props[i][2])>>])

\* Costume entries: two with asset id "a" that differ in name, one of them also
\* with its properties in the other order; one with asset id "b"; one that has
\* neither assetId nor md5ext.
Costumes ==
  {Asset(<< <<kAssetId, <<"a">>>>, <<kName, <<"x">>>> >>),
   Asset(<< <<kName, <<"x">>>>, <<kAssetId, <<"a">>>> >>),
   Asset(<< <<kAssetId, <<"a">>>>, <<kName, <<"y">>>> >>),
   Asset(<< <<kAssetId, <<"b">>>>, <<kName, <<"x">>>> >>),
   Asset(<< <<kName, <<"x">>>> >>)}

CostumeLists == UNION {[1..n -> Costumes] : n \in 0..MaxAssets}

\* Sound entries: keyed by assetId, by md5ext alone, or by neither
Sounds ==
  {Asset(<< <<kAssetId, <<"s">>>>, <<kName, <<"p">>>> >>),
   Asset(<< <<kAssetId, <<"s">>>>, <<kName, <<"q">>>> >>),
   Asset(<< <<kAssetId, <<"t">>>>, <<kName, <<"p">>>> >>),
   Asset(<< <<kMd5ext, <<"m",".","w","a","v">>>>, <<kName, <<"p">>>> >>),
   Asset(<< <<kName, <<"p">>>> >>)}

SoundLists == {<<>>} \cup {<<sound>> : sound \in Sounds}

\* A variable [name, value] and a list [name, items]
Variable(name, value) == Arr(<<Str(name), Num(value)>>)

ListOf(name, items) == Arr(<<Str(name), Arr([i \in 1..Len(items) |-> Str(items[i])])>>)

VariableValues == {Variable(<<"s","c","o","r","e">>, 0), Variable(<<"s","c","o","r","e">>, 5), Variable(<<"l","i","v","e","s">>, 0)}

\* The variables of a target: none, v1, v2, or both in either order, and the
\* score kept under another key
VariableObjects ==
  {Obj(<<>>), Obj(<< <<<<"v","3">>, Variable(<<"s","c","o","r","e">>, 0)>> >>)}
  \cup {Obj(<< <<<<"v","1">>, x>> >>) : x \in VariableValues}
  \cup {Obj(<< <<<<"v","2">>, Variable(<<"l","i","v","e","s">>, 3)>> >>)}
  \cup {Obj(<< <<<<"v","1">>, x>>, <<<<"v","2">>, Variable(<<"l","i","v","e","s">>, 3)>> >>) : x \in VariableValues}
  \cup {Obj(<< <<<<"v","2">>, Variable(<<"l","i","v","e","s">>, 3)>>, <<<<"v","1">>, x>> >>) : x \in VariableValues}

ListObjects ==
  {Obj(<<>>),
   Obj(<< <<<<"l","1">>, ListOf(<<"i","t","e","m","s">>, <<>>)>> >>),
   Obj(<< <<<<"l","1">>, ListOf(<<"i","t","e","m","s">>, << <<"a">> >>)>> >>),
   Obj(<< <<<<"l","2">>, ListOf(<<"i","t","e","m","s">>, <<>>)>> >>)}

Target(name, variables, lists, costumes, sounds, blocks) ==
  [name |-> name, variables |-> variables, lists |-> lists, costumes |-> costumes,
   sounds |-> sounds, blocks |-> blocks, created |-> FALSE]

\* The sprite every family below varies one part of
Sprite(variables, lists, costumes, sounds, blocks) ==
  Target("Sprite1", variables, lists, costumes, sounds, blocks)

PlainVariables == Obj(<< <<<<"v","1">>, Variable(<<"s","c","o","r","e">>, 0)>> >>)

PlainCostumes ==
  Arr(<<Asset(<< <<kAssetId, <<"a">>>>, <<kName, <<"x">>>> >>)>>)

PlainSprite ==
  Sprite(PlainVariables, Obj(<<>>), PlainCostumes, Arr(<<>>), BlocksOf(<<"move">>))

Stage ==
  Target("Stage", Obj(<< <<<<"v","0">>, Variable(<<"t","o","t","a","l">>, 0)>> >>), Obj(<<>>),
         Arr(<<Asset(<< <<kAssetId, <<"b">>>>, <<kName, <<"x">>>> >>)>>), Arr(<<>>),
         <<>>)

\* Projects that differ in which targets they have
TargetLists ==
  {<<>>, <<Stage>>, <<PlainSprite>>, <<Stage, PlainSprite>>, <<PlainSprite, Stage>>}

WithScripts(kinds) == <<[PlainSprite EXCEPT !.blocks = BlocksOf(kinds)]>>

\* The pairs <<old, new>> of projects the diff command is run on
ProjectPairs ==
  {<<WithScripts(a), WithScripts(b)>> : a \in KindLists, b \in KindLists}
  \cup {<<WithScripts(a), <<[PlainSprite EXCEPT !.blocks = Rename(r, BlocksOf(a))]>> >> :
          a \in KindLists, r \in Renamings}
  \cup {<<WithScripts(a), WithScripts(b)>> : a \in OddLists, b \in OddLists}
  \cup {<<WithScripts(a), WithScripts(b)>> : a \in GreedyLists, b \in GreedyLists}
  \cup {<< <<target>>, <<[target EXCEPT !.blocks = Moved(@)]>> >> :
          target \in {[PlainSprite EXCEPT !.blocks = BlocksOf(<<k>>)] : k \in ScriptKinds}
                     \cup {[PlainSprite EXCEPT !.blocks = BlocksOf(<<"move">>),
                                               !.costumes = Arr(<<c>>)] : c \in Costumes}}
  \cup {<<WithScripts(<<k>>), <<[PlainSprite EXCEPT !.blocks = Reordered(BlocksOf(<<k>>))]>> >> :
          k \in ScriptKinds}
  \cup {<< <<[PlainSprite EXCEPT !.costumes = Arr(a)]>>,
           <<[PlainSprite EXCEPT !.costumes = Arr(b)]>> >> :
          a \in CostumeLists, b \in CostumeLists}
  \cup {<< <<[PlainSprite EXCEPT !.sounds = Arr(a)]>>,
           <<[PlainSprite EXCEPT !.sounds = Arr(b)]>> >> :
          a \in SoundLists, b \in SoundLists}
  \cup {<< <<[PlainSprite EXCEPT !.variables = a]>>,
           <<[PlainSprite EXCEPT !.variables = b]>> >> :
          a \in VariableObjects, b \in VariableObjects}
  \cup {<< <<[PlainSprite EXCEPT !.lists = a]>>, <<[PlainSprite EXCEPT !.lists = b]>> >> :
          a \in ListObjects, b \in ListObjects}
  \cup (TargetLists \X TargetLists)

----------------------------------------------------------------------------
(* The commands: diff, then reconstruct *)

\* What Math.random().toString() may give
RandomKeys == {Str(<<"0", ".">> \o Digits(n)) : n \in 1..MaxDraws}

\* The places where createResourceMap draws: the resources, of targets that both
\* projects have, that carry neither assetId nor md5ext
DrawPlaces(oldIR, newIR) ==
  LET places(project, side, name) ==
        {<<name, side, "costumes", i>> :
           i \in {j \in 1..Len(FindTarget(project, name).costumes.v) :
                    ~Truthy(ResourceId(FindTarget(project, name).costumes.v[j]))}}
        \cup
        {<<name, side, "sounds", i>> :
           i \in {j \in 1..Len(FindTarget(project, name).sounds.v) :
                    ~Truthy(ResourceId(FindTarget(project, name).sounds.v[j]))}}
      names == {oldIR[i].name : i \in 1..Len(oldIR)} \cap {newIR[i].name : i \in 1..Len(newIR)}
  IN  UNION {places(oldIR, "old", name) \cup places(newIR, "new", name) : name \in names}

NoDiff == [items |-> <<>>, threw |-> FALSE, rounds |-> <<>>, projectMatches |-> <<>>]

NoSummary == calculateSummary(NoDiff)

NoTextDiff == [added |-> 0, removed |-> 0, changes |-> <<>>, threw |-> FALSE]

NoWalk == [pc |-> "idle"]

Init ==
  /\ \E pair \in ProjectPairs : oldRaw = pair[1] /\ newRaw = pair[2]
  /\ pc = "start"
  /\ diff = NoDiff
  /\ summary = NoSummary
  /\ baseLoaded = <<>>
  /\ formatted = <<>>
  /\ isReverse = FALSE
  /\ baseRaw = <<>>
  /\ newProject = <<>>
  /\ lineA = <<>>
  /\ lineB = <<>>
  /\ textDiff = NoTextDiff
  /\ walk = NoWalk

\* The diff command: the IR pipeline and generateEnhancedDiff on the two
\* projects, the raw Diff and its summary
Compare ==
  /\ pc = "start"
  /\ \E draws \in [DrawPlaces(oldRaw, newRaw) -> RandomKeys] :
       \E d \in {generateDiff(oldRaw, newRaw, draws)} :
         /\ diff' = d
         /\ summary' = calculateSummary(d)
         /\ pc' = IF d.threw THEN "failed" ELSE "diffed"
  /\ UNCHANGED <<oldRaw, newRaw, isReverse, baseRaw, newProject, lineA, lineB, textDiff, walk,
                 baseLoaded, formatted>>

\* The reconstruct command: the items replayed onto a base project (either
\* side of the diff, or a project without targets), in forward direction or
\* with --reverse
Reconstruct ==
  /\ pc = "diffed"
  /\ \E reverse \in BOOLEAN, base \in {oldRaw, newRaw, <<>>} :
       LET r == Replay(base, diff.items, reverse)
       IN  /\ isReverse' = reverse
           /\ baseLoaded' = base
           /\ baseRaw' = IF newProjectObject = BaseRawObject THEN r.project ELSE base
           /\ newProject' = r.project
           /\ pc' = IF r.threw THEN "failed" ELSE "rebuilt"
  /\ UNCHANGED <<oldRaw, newRaw, diff, lineA, lineB, textDiff, walk, summary, formatted>>

Next == Compare \/ Reconstruct

Spec == Init /\ [][Next]_vars

----------------------------------------------------------------------------
(* The line diff on its own: myersDiff on two line sequences *)

MaxLines == 3

Lines == {<<"a">>, <<"b">>}

LineSeqs == UNION {[1..n -> Lines] : n \in 0..MaxLines}

LineInit ==
  /\ lineA \in LineSeqs
  /\ lineB \in LineSeqs
  /\ textDiff = NoTextDiff
  /\ pc = "lines"
  /\ oldRaw = <<>>
  /\ newRaw = <<>>
  /\ diff = NoDiff
  /\ summary = NoSummary
  /\ baseLoaded = <<>>
  /\ formatted = <<>>
  /\ isReverse = FALSE
  /\ baseRaw = <<>>
  /\ newProject = <<>>
  /\ walk = NoWalk

\* myersDiff(lineA, lineB), counted as diffText counts it
DiffLines ==
  /\ pc = "lines"
  /\ textDiff' = diffLines(lineA, lineB)
  /\ pc' = "counted"
  /\ UNCHANGED <<oldRaw, newRaw, diff, isReverse, baseRaw, newProject, lineA, lineB, walk,
                 summary, baseLoaded, formatted>>

LineNext == DiffLines

SpecLineDiff == LineInit /\ [][LineNext]_vars

----------------------------------------------------------------------------
(* The hunk writer on its own: formatDiff on an edit script *)

MaxOps == 4

\* The edit scripts of up to MaxOps operations, every line the same
EditScripts ==
  UNION {[1..n -> {[type |-> type, line |-> <<"a">>] : type \in {"keep", "add", "remove"}}] :
           n \in 0..MaxOps}

FormatInit ==
  /\ \E changes \in EditScripts :
       textDiff = [added   |-> CountType(changes, "add"),
                   removed |-> CountType(changes, "remove"),
                   changes |-> changes,
                   threw   |-> FALSE]
  /\ formatted = <<>>
  /\ pc = "script"
  /\ lineA = <<>>
  /\ lineB = <<>>
  /\ oldRaw = <<>>
  /\ newRaw = <<>>
  /\ diff = NoDiff
  /\ summary = NoSummary
  /\ isReverse = FALSE
  /\ baseRaw = <<>>
  /\ baseLoaded = <<>>
  /\ newProject = <<>>
  /\ walk = NoWalk

\* formatDiff(textDiff)
FormatDiff ==
  /\ pc = "script"
  /\ formatted' = formatDiff(textDiff)
  /\ pc' = "formatted"
  /\ UNCHANGED <<oldRaw, newRaw, diff, isReverse, baseRaw, newProject, lineA, lineB, textDiff,
                 walk, summary, baseLoaded>>

FormatNext == FormatDiff

SpecFormat == FormatInit /\ [][FormatNext]_vars

----------------------------------------------------------------------------
(* The script walks, one loop round at a time: reconstructScript of            *)
(* ProjectParser (two passes along next) and parseScriptWithBlocks (along next *)
(* and into CONDITION, SUBSTACK and SUBSTACK2)                                 *)

MaxVisits == 2
MaxDepth  == 3

WalkIds == {<<"a">>, <<"b">>, <<"c">>}

\* A block of a walked map: its next pointer and the slots that refer to blocks
WalkBlock(next, slots, topLevel) ==
  Block(<<"m","o","t","i","o","n","_","m","o","v","e","s","t","e","p","s">>, next, Null, Obj(slots), Obj(<<>>), topLevel)

Slot(name, ids) == {<<>>} \cup {<< <<name, Ref(id)>> >> : id \in ids}

\* Block maps over a, b and c with a the top-level block: well-formed chains and
\* trees, chains that run into an id the map lacks ("z"), and maps in which next
\* or a slot leads back to a block already walked
WalkMaps ==
  {<< <<<<"a">>, WalkBlock(an, as \o as2, TRUE)>>,
      <<<<"b">>, WalkBlock(bn, bc, FALSE)>>,
      <<<<"c">>, WalkBlock(cn, <<>>, FALSE)>> >> :
     an \in {Null, Str(<<"a">>), Str(<<"b">>), Str(<<"z">>)},
     as \in Slot(kSUBSTACK, {<<"a">>, <<"b">>}),
     as2 \in Slot(kSUBSTACK2, {<<"c">>}),
     bn \in {Null, Str(<<"a">>), Str(<<"c">>)},
     bc \in Slot(kCONDITION, {<<"c">>}),
     cn \in {Null, Str(<<"b">>)}}

NoVisits == [id \in WalkIds |-> 0]

\* One more visit of id, counted up to MaxVisits
Visit(visits, id) == [visits EXCEPT ![id] = IF @ < MaxVisits THEN @ + 1 ELSE @]

WalkInit ==
  /\ \E blocks \in WalkMaps, kind \in {"reconstruct", "parse"} :
       walk = [kind |-> kind,
               blocks |-> blocks,
               topId |-> getTopLevelIds(blocks)[1],
               pc |-> IF kind = "reconstruct" THEN "pass1" ELSE "parsing",
               currentBlockId |-> Str(getTopLevelIds(blocks)[1]),
               normalizedBlocks |-> {},
               linked |-> {},
               stack |-> IF kind = "parse"
                         THEN <<[currentId |-> Str(getTopLevelIds(blocks)[1]),
                                 stage |-> "head"]>>
                         ELSE <<>>,
               visits |-> NoVisits]
  /\ pc = "walk"
  /\ oldRaw = <<>>
  /\ newRaw = <<>>
  /\ diff = NoDiff
  /\ summary = NoSummary
  /\ baseLoaded = <<>>
  /\ formatted = <<>>
  /\ isReverse = FALSE
  /\ baseRaw = <<>>
  /\ newProject = <<>>
  /\ lineA = <<>>
  /\ lineB = <<>>
  /\ textDiff = NoTextDiff

WalkFrame ==
  UNCHANGED <<oldRaw, newRaw, pc, diff, isReverse, baseRaw, newProject, lineA, lineB, textDiff,
              summary, baseLoaded, formatted>>

\* while (currentBlockId) of a pass is over: currentBlockId is falsy, or the map
\* has no such block (break)
PassOver ==
  \/ ~Truthy(walk.currentBlockId)
  \/ ~HasBlock(walk.blocks, walk.currentBlockId.v)

\* reconstructScript, one round of the first loop
Pass1Step ==
  /\ walk.pc = "pass1"
  /\ walk' =
       IF PassOver
       THEN [walk EXCEPT !.pc = "pass2", !.currentBlockId = Str(walk.topId),
                         !.visits = NoVisits]
       ELSE [walk EXCEPT
               !.normalizedBlocks = @ \cup {walk.currentBlockId.v},
               !.visits = Visit(@, walk.currentBlockId.v),
               !.currentBlockId = BlockAt(walk.blocks, walk.currentBlockId.v).next]
  /\ WalkFrame

\* reconstructScript, one round of the second loop
Pass2Step ==
  /\ walk.pc = "pass2"
  /\ walk' =
       IF PassOver THEN [walk EXCEPT !.pc = "done"]
       ELSE LET rawBlock == BlockAt(walk.blocks, walk.currentBlockId.v)
            IN  [walk EXCEPT
                   !.linked = IF /\ Truthy(rawBlock.next)
                                 /\ rawBlock.next.v \in walk.normalizedBlocks
                              THEN @ \cup {<<walk.currentBlockId.v, rawBlock.next.v>>}
                              ELSE @,
                   !.visits = Visit(@, walk.currentBlockId.v),
                   !.currentBlockId = rawBlock.next]
  /\ WalkFrame

\* The call of parseScriptWithBlocks on top of the stack, and its block
TopFrame == walk.stack[Len(walk.stack)]

TopBlock == BlockAt(walk.blocks, TopFrame.currentId.v)

AtStage(stage) ==
  /\ walk.pc = "parsing"
  /\ TopFrame.stage = stage

ToStage(stage) == [walk.stack EXCEPT ![Len(walk.stack)].stage = stage]

\* parseScriptWithBlocks, the head of a loop round: the call returns when
\* currentId is falsy; reading a block the map lacks throws a TypeError;
\* otherwise the block's line is pushed
ParseVisit ==
  /\ AtStage("head")
  /\ walk' =
       IF ~Truthy(TopFrame.currentId)
       THEN [walk EXCEPT !.stack = SubSeq(@, 1, Len(@) - 1),
                         !.pc = IF Len(walk.stack) = 1 THEN "done" ELSE @]
       ELSE IF ~HasBlock(walk.blocks, TopFrame.currentId.v)
       THEN [walk EXCEPT !.pc = "threw"]
       ELSE [walk EXCEPT !.visits = Visit(@, TopFrame.currentId.v),
                         !.stack = ToStage("condition")]
  /\ WalkFrame

\* The nested call for the slot, if the slot refers to a block; the call stack
\* holds MaxDepth calls, one more is a RangeError
Descend(slot, stage) ==
  IF ~SlotRefers(TopBlock, slot) THEN [walk EXCEPT !.stack = ToStage(stage)]
  ELSE IF Len(walk.stack) >= MaxDepth THEN [walk EXCEPT !.pc = "threw"]
  ELSE [walk EXCEPT
          !.stack = Append(ToStage(stage),
                           [currentId |-> SlotId(TopBlock, slot), stage |-> "head"])]

ParseCondition ==
  /\ AtStage("condition")
  /\ walk' = Descend(kCONDITION, "substack")
  /\ WalkFrame

ParseSubstack ==
  /\ AtStage("substack")
  /\ walk' = Descend(kSUBSTACK, "substack2")
  /\ WalkFrame

ParseSubstack2 ==
  /\ AtStage("substack2")
  /\ walk' = Descend(kSUBSTACK2, "next")
  /\ WalkFrame

\* currentId = block.next
ParseNext ==
  /\ AtStage("next")
  /\ walk' = [walk EXCEPT !.stack = [@ EXCEPT ![Len(@)] =
                                       [currentId |-> TopBlock.next, stage |-> "head"]]]
  /\ WalkFrame

WalkNext ==
  \/ Pass1Step
  \/ Pass2Step
  \/ ParseVisit
  \/ ParseCondition
  \/ ParseSubstack
  \/ ParseSubstack2
  \/ ParseNext

\* A walk that can take a step takes one: the loops run
SpecWalk == WalkInit /\ [][WalkNext]_vars /\ WF_vars(WalkNext)

----------------------------------------------------------------------------
(* Properties *)

ItemsWhere(types, targetName) ==
  {i \in 1..Len(diff.items) :
     diff.items[i].type \in types /\ diff.items[i].targetName = targetName}

ScriptItemTypes == {"script-add", "script-delete", "script-modify"}

BlockItemTypes == {"block-add", "block-delete", "block-edit", "block-move"}

\* C1: diffing a document against itself yields no items, whatever its targets,
\* block maps and collections hold, asset entries without assetId and md5ext
\* included.
SelfDiffEmpty == (pc = "diffed" /\ oldRaw = newRaw) => diff.items = <<>>

\* newRaw is oldRaw with the block ids of its one target renamed
IsRenaming ==
  /\ Len(oldRaw) = 1
  /\ Len(newRaw) = 1
  /\ \E r \in Renamings :
       newRaw = <<[oldRaw[1] EXCEPT !.blocks = Rename(r, oldRaw[1].blocks)]>>

TextsAndFingerprints(scripts) ==
  [i \in 1..Len(scripts) |-> <<scripts[i].text, scripts[i].fingerprint>>]

\* C2: script fingerprints do not depend on block ids: when the new block map is
\* an injective renaming of the old one, parseSpriteScripts returns the same
\* list of texts and fingerprints for both, and generateDiff emits no script or
\* block item.
RenamingInvisible ==
  (pc = "diffed" /\ IsRenaming) =>
    /\ \A i \in 1..Len(diff.rounds) :
         TextsAndFingerprints(diff.rounds[i].oldScripts)
           = TextsAndFingerprints(diff.rounds[i].newScripts)
    /\ \A i \in 1..Len(diff.items) :
         diff.items[i].type \notin ScriptItemTypes \cup BlockItemTypes

Collections(target) ==
  <<target.variables, target.lists, target.costumes, target.sounds>>

\* C3: forward replay of generateDiff(old, new) onto old gives a document whose
\* variables, lists, costumes and sounds equal those of new in every target,
\* entry for entry.
RoundTrip ==
  (pc = "rebuilt" /\ ~isReverse /\ baseRaw = oldRaw) =>
    \A i \in 1..Len(newRaw) :
      /\ HasTarget(newProject, newRaw[i].name)
      /\ Collections(FindTarget(newProject, newRaw[i].name)) = Collections(newRaw[i])

\* C4: the edit script of myersDiff(A, B) conserves lines: added + kept = len(B)
\* and removed + kept = len(A).
Conservation ==
  pc = "counted" =>
    /\ CountType(textDiff.changes, "add") + CountType(textDiff.changes, "keep")
         = Len(lineB)
    /\ CountType(textDiff.changes, "remove") + CountType(textDiff.changes, "keep")
         = Len(lineA)
    /\ textDiff.added = CountType(textDiff.changes, "add")
    /\ textDiff.removed = CountType(textDiff.changes, "remove")

\* C5: when the only script of a target is [flag-clicked, move(10)] in old and the
\* same chain with wait(1) appended in new, generateDiff emits exactly one
\* script-modify item for the target, with added = 1 and removed = 0, and no
\* script-add or script-delete item.
AppendIsOneEdit ==
  (pc = "diffed" /\ oldRaw = WithScripts(<<"move">>) /\ newRaw = WithScripts(<<"wait">>)) =>
    /\ Cardinality(ItemsWhere({"script-modify"}, "Sprite1")) = 1
    /\ \A i \in ItemsWhere({"script-modify"}, "Sprite1") :
         diff.items[i].diff.added = 1 /\ diff.items[i].diff.removed = 0
    /\ ItemsWhere({"script-add", "script-delete"}, "Sprite1") = {}

\* The matched pairs of round i whose two fingerprints are equal
EqualPairs(i) ==
  {k \in 1..Len(diff.rounds[i].scriptMatches.matchedScripts) :
     diff.rounds[i].scriptMatches.matchedScripts[k].oldScript.fingerprint
       = diff.rounds[i].scriptMatches.matchedScripts[k].newScript.fingerprint}

RECURSIVE JsEqual(_, _)
JsEqual(a, b) ==
  CASE a.t = "object" /\ b.t = "object" ->
         /\ {a.v[i][1] : i \in 1..Len(a.v)} = {b.v[i][1] : i \in 1..Len(b.v)}
         /\ \A i \in 1..Len(a.v) : JsEqual(a.v[i][2], Get(b, a.v[i][1]))
    [] a.t = "array" /\ b.t = "array" ->
         /\ Len(a.v) = Len(b.v)
         /\ \A i \in 1..Len(a.v) : JsEqual(a.v[i], b.v[i])
    [] OTHER -> a = b

\* The entries of an asset list that have a key (assetId, else md5ext), by key
KeyedAssets(list) ==
  createResourceMap(Arr(Pick(list.v, {i \in 1..Len(list.v) : Truthy(ResourceId(list.v[i]))})),
                    <<>>, <<>>)

\* The keyed entries of the collection of the given kind
EntriesOf(target, kind) ==
  CASE kind = "variable" -> ObjectEntries(target.variables)
    [] kind = "list"     -> ObjectEntries(target.lists)
    [] kind = "costume"  -> KeyedAssets(target.costumes)
    [] kind = "sound"    -> KeyedAssets(target.sounds)

\* The items of the given type that generateDiff emitted for the key
ItemsFor(type, targetName, key) ==
  {i \in ItemsWhere({type}, targetName) : diff.items[i].fingerprint = key}

\* What the classification asks of one key of one collection
Classified(kind, targetName, old, new, key) ==
  LET deletes == Cardinality(ItemsFor(kind \o "-delete", targetName, key))
      adds    == Cardinality(ItemsFor(kind \o "-add", targetName, key))
      edits   == ItemsFor(kind \o "-edit", targetName, key)
  IN  CASE ~EntryHas(new, key) -> deletes = 1 /\ adds = 0 /\ edits = {}
        [] ~EntryHas(old, key) -> deletes = 0 /\ adds = 1 /\ edits = {}
        [] JsEqual(EntryGet(old, key), EntryGet(new, key)) ->
             deletes = 0 /\ adds = 0 /\ edits = {}
        [] OTHER ->
             /\ deletes = 0 /\ adds = 0 /\ Cardinality(edits) = 1
             /\ \A i \in edits : /\ diff.items[i].old = EntryGet(old, key)
                                 /\ diff.items[i].new = EntryGet(new, key)

\* C7: for every target in both documents and each of its keyed collections, a
\* key only in old yields exactly one delete item, a key only in new exactly one
\* add item, a key in both with unequal values exactly one edit item carrying
\* both payloads, and a key in both with equal values no item.
KeyedClassification ==
  pc = "diffed" =>
    \A i \in 1..Len(diff.rounds) :
      diff.rounds[i].compared =>
        \A kind \in {"variable", "list", "costume", "sound"} :
          LET old == EntriesOf(FindTarget(oldRaw, diff.rounds[i].targetName), kind)
              new == EntriesOf(FindTarget(newRaw, diff.rounds[i].targetName), kind)
          IN  \A key \in {old[k][1] : k \in 1..Len(old)} \cup {new[k][1] : k \in 1..Len(new)} :
                Classified(kind, diff.rounds[i].targetName, old, new, key)

\* How often the script with the given top id occurs in a list of scripts
Occurrences(scripts, topId) ==
  Cardinality({k \in 1..Len(scripts) : scripts[k].topId = topId})

\* C8: matchScripts partitions the scripts: every old script is in exactly one of
\* the matched pairs and unmatchedOldScripts, every new script in exactly one of
\* the matched pairs and unmatchedNewScripts, lists with several scripts of one
\* fingerprint included; so every unmatched script yields one script-delete or
\* script-add item.
MatchIsPartition ==
  pc = "diffed" =>
    \A i \in 1..Len(diff.rounds) :
      diff.rounds[i].compared =>
        LET m == diff.rounds[i].scriptMatches
            matchedOld == [k \in 1..Len(m.matchedScripts) |-> m.matchedScripts[k].oldScript]
            matchedNew == [k \in 1..Len(m.matchedScripts) |-> m.matchedScripts[k].newScript]
        IN  /\ \A k \in 1..Len(diff.rounds[i].oldScripts) :
                 Occurrences(matchedOld \o m.unmatchedOldScripts,
                             diff.rounds[i].oldScripts[k].topId) = 1
            /\ \A k \in 1..Len(diff.rounds[i].newScripts) :
                 Occurrences(matchedNew \o m.unmatchedNewScripts,
                             diff.rounds[i].newScripts[k].topId) = 1
            /\ Cardinality(ItemsWhere({"script-delete"}, diff.rounds[i].targetName))
                 = Len(m.unmatchedOldScripts)
            /\ Cardinality(ItemsWhere({"script-add"}, diff.rounds[i].targetName))
                 = Len(m.unmatchedNewScripts)

\* C9: when old and new differ only in the key of the condition block of a
\* branch, space in old and up in new, the two script fingerprints differ and
\* generateDiff emits exactly one script-modify item, with one removed and one
\* added line.
ConditionChangeIsOneEdit ==
  (pc = "diffed" /\ oldRaw = WithScripts(<<"space">>) /\ newRaw = WithScripts(<<"up">>)) =>
    /\ diff.rounds[1].oldScripts[1].fingerprint # diff.rounds[1].newScripts[1].fingerprint
    /\ Cardinality(ItemsWhere({"script-modify"}, "Sprite1")) = 1
    /\ \A i \in ItemsWhere({"script-modify"}, "Sprite1") :
         diff.items[i].diff.removed = 1 /\ diff.items[i].diff.added = 1

\* C10: the script walks are cycle-safe: on every block map, maps in which next
\* or a CONDITION, SUBSTACK or SUBSTACK2 reference leads back to a walked block
\* included, no walk visits a block id twice, and every walk comes to its end.
CycleSafe ==
  /\ [](\A id \in WalkIds : walk.visits[id] <= 1)
  /\ <>(walk.pc \in {"done", "threw"})


\* A next pointer or a CONDITION, SUBSTACK or SUBSTACK2 reference of the block
\* names an id that is in no entry of the map
DanglesIn(blocks, block) ==
  \/ block.next.t = "string" /\ ~HasBlock(blocks, block.next.v)
  \/ \E slot \in {kCONDITION, kSUBSTACK, kSUBSTACK2} :
       SlotRefers(block, slot) /\ ~HasBlock(blocks, SlotId(block, slot).v)

Dangles(project) ==
  \E t \in 1..Len(project) : \E i \in 1..Len(project[t].blocks) :
    DanglesIn(project[t].blocks, project[t].blocks[i][2])

\* The scripts of a round are one per top-level id of the target
CoversScripts(project, name, scripts) ==
  HasTarget(project, name) =>
    Len(scripts) = Len(getTopLevelIds(FindTarget(project, name).blocks))

\* C11: a reference to an id that is in no entry of the block map does not end
\* the comparison: generateDiff returns without an exception, with the scripts
\* of every target parsed.
DanglingDegrades ==
  (pc # "start" /\ (Dangles(oldRaw) \/ Dangles(newRaw))) =>
    /\ ~diff.threw
    /\ \A i \in 1..Len(diff.rounds) :
         /\ CoversScripts(oldRaw, diff.rounds[i].targetName, diff.rounds[i].oldScripts)
         /\ CoversScripts(newRaw, diff.rounds[i].targetName, diff.rounds[i].newScripts)

\* The root of the script is a block with topLevel = true and shadow = false
RootIsPlain(project, name, script) ==
  LET root == BlockAt(FindTarget(project, name).blocks, script.topId)
  IN  Truthy(root.topLevel) /\ ~Truthy(root.shadow)

\* C12: every script generateDiff works with is rooted at a block with
\* topLevel = true and shadow = false, and so is the script of every script-add,
\* script-delete and script-modify item.
ShadowNeverRoot ==
  pc = "diffed" =>
    /\ \A i \in 1..Len(diff.rounds) :
         /\ \A k \in 1..Len(diff.rounds[i].oldScripts) :
              RootIsPlain(oldRaw, diff.rounds[i].targetName, diff.rounds[i].oldScripts[k])
         /\ \A k \in 1..Len(diff.rounds[i].newScripts) :
              RootIsPlain(newRaw, diff.rounds[i].targetName, diff.rounds[i].newScripts[k])
    /\ \A j \in 1..Len(diff.items) :
         /\ diff.items[j].type \in {"script-delete", "script-modify"} =>
              RootIsPlain(oldRaw, diff.items[j].targetName, diff.items[j].old)
         /\ diff.items[j].type \in {"script-add", "script-modify"} =>
              RootIsPlain(newRaw, diff.items[j].targetName, diff.items[j].new)

\* C13: generateDiff on the same two documents returns the same item list on
\* every invocation, whatever Math.random gives.
Deterministic ==
  pc = "diffed" =>
    \A draws \in [DrawPlaces(oldRaw, newRaw) -> RandomKeys] :
      generateDiff(oldRaw, newRaw, draws).items = diff.items

\* newRaw is oldRaw with the keys of the inputs and fields maps in another order
IsReordering ==
  /\ Len(oldRaw) = 1
  /\ Len(newRaw) = 1
  /\ newRaw = <<[oldRaw[1] EXCEPT !.blocks = Reordered(oldRaw[1].blocks)]>>

\* C14: script fingerprints do not depend on the insertion order of the keys of
\* inputs and fields: for two block maps that differ in that order only,
\* parseSpriteScripts returns the same texts and fingerprints, and generateDiff
\* emits no script item.
KeyOrderInvisible ==
  (pc = "diffed" /\ IsReordering) =>
    /\ \A i \in 1..Len(diff.rounds) :
         TextsAndFingerprints(diff.rounds[i].oldScripts)
           = TextsAndFingerprints(diff.rounds[i].newScripts)
    /\ \A i \in 1..Len(diff.items) : diff.items[i].type \notin ScriptItemTypes

\* Script kinds that differ pairwise in an opcode, a field value or the nesting
\* of a block reachable from the root
ContentKinds == {"move", "wait", "space", "up", "Aa", "BB", "xpos", "ypos"}

\* C15: two scripts that differ in content have different canonical texts, also
\* when the difference lies in a reporter block that an input slot other than
\* CONDITION, SUBSTACK and SUBSTACK2 refers to.
ContentChangesText ==
  pc = "diffed" =>
    \A a \in ContentKinds, b \in ContentKinds :
      (a # b /\ oldRaw = WithScripts(<<a>>) /\ newRaw = WithScripts(<<b>>)) =>
        diff.rounds[1].oldScripts[1].text # diff.rounds[1].newScripts[1].text

\* The operation the replay performs for the item: add and delete change places
\* with --reverse
EffectiveChange(item, reverse) ==
  IF reverse
  THEN (IF TypeChange(item.type) = "add" THEN "delete"
        ELSE IF TypeChange(item.type) = "delete" THEN "add" ELSE TypeChange(item.type))
  ELSE TypeChange(item.type)

\* The entry an addition adds
AddedEntry(item, reverse) ==
  IF reverse THEN ReadItem(item).old ELSE ReadItem(item).new

ResourcesOf(target, kind) == IF kind = "costume" THEN target.costumes ELSE target.sounds

\* C16: for an item whose target the base lacks, replay creates the target and
\* applies the item when its effective operation is an addition, so that the
\* derived document holds the added entry in that target; a target for which
\* no item is an addition is not created.
AbsentTargetAdded ==
  pc = "rebuilt" =>
    \A i \in 1..Len(diff.items) :
      ~HasTarget(baseRaw, diff.items[i].targetName) =>
        /\ (/\ EffectiveChange(diff.items[i], isReverse) = "add"
            /\ TypeKind(diff.items[i].type) \in {"costume", "sound"}) =>
             /\ HasTarget(newProject, diff.items[i].targetName)
             /\ \E k \in 1..Len(ResourcesOf(FindTarget(newProject, diff.items[i].targetName),
                                            TypeKind(diff.items[i].type)).v) :
                  ResourcesOf(FindTarget(newProject, diff.items[i].targetName),
                              TypeKind(diff.items[i].type)).v[k]
                    = AddedEntry(diff.items[i], isReverse)
        /\ (\A j \in 1..Len(diff.items) :
              diff.items[j].targetName = diff.items[i].targetName =>
                EffectiveChange(diff.items[j], isReverse) # "add") =>
             ~HasTarget(newProject, diff.items[i].targetName)

\* The item is left out by the loop: its target is not in the project, or it
\* edits or deletes an entry that the collection of its target does not hold
IsSkipped(project, item, reverse) ==
  \/ ~HasTarget(project, item.targetName)
  \/ /\ TypeKind(item.type) \in {"costume", "sound"}
     /\ EffectiveChange(item, reverse) \in {"edit", "delete"}
     /\ \A k \in 1..Len(ResourcesOf(FindTarget(project, item.targetName),
                                    TypeKind(item.type)).v) :
          ResourceId(ResourcesOf(FindTarget(project, item.targetName),
                                 TypeKind(item.type)).v[k])
            # ResourceId(IF reverse THEN item.new ELSE item.old)

\* The places of the items that the loop leaves out, from item i on
RECURSIVE SkippedFrom(_, _, _, _)
SkippedFrom(project, items, i, reverse) ==
  IF i > Len(items) \/ ApplyThrows(project, items[i], reverse) THEN {}
  ELSE (IF IsSkipped(project, items[i], reverse) THEN {i} ELSE {})
       \cup SkippedFrom(ApplyItem(project, items[i], reverse), items, i + 1, reverse)

\* C17: every item that replay skips because its target or its entry is absent
\* is recorded in the report produced with the derived document.
SkipsReported ==
  pc = "rebuilt" =>
    \A i \in SkippedFrom(CloneProject(baseRaw), ReadItems(diff.items), 1, isReverse) :
      \E k \in 1..Len(ApplyReport(baseRaw, diff.items, isReverse)) :
        ApplyReport(baseRaw, diff.items, isReverse)[k] = ReadItems(diff.items)[i]

TargetNames(project) == {project[i].name : i \in 1..Len(project)}

\* C18: for documents with the same target names, replaying generateDiff(old,
\* new) with --reverse onto new gives a document whose costumes and sounds equal
\* those of old in every target.
ReverseInvertsAssets ==
  (pc = "rebuilt" /\ isReverse /\ baseRaw = newRaw
     /\ TargetNames(oldRaw) = TargetNames(newRaw)) =>
    \A i \in 1..Len(oldRaw) :
      /\ HasTarget(newProject, oldRaw[i].name)
      /\ FindTarget(newProject, oldRaw[i].name).costumes = oldRaw[i].costumes
      /\ FindTarget(newProject, oldRaw[i].name).sounds = oldRaw[i].sounds

\* The length of a longest common subsequence of a[i..] and b[j..]
RECURSIVE LCS(_, _, _, _)
LCS(a, b, i, j) ==
  IF i > Len(a) \/ j > Len(b) THEN 0
  ELSE IF a[i] = b[j] THEN 1 + LCS(a, b, i + 1, j + 1)
  ELSE IF LCS(a, b, i + 1, j) >= LCS(a, b, i, j + 1) THEN LCS(a, b, i + 1, j)
  ELSE LCS(a, b, i, j + 1)

\* The lines of the changes of the given types, in order
Spelled(changes, types) ==
  LET kept == Pick(changes, {i \in 1..Len(changes) : changes[i].type \in types})
  IN  [i \in 1..Len(kept) |-> kept[i].line]

\* C19: the edit script of myersDiff(A, B) is minimal: its add and remove
\* operations number len(A) + len(B) - 2 * LCS(A, B), its keep and remove
\* operations spell A and its keep and add operations spell B.
EditScriptMinimal ==
  pc = "counted" =>
    /\ CountType(textDiff.changes, "add") + CountType(textDiff.changes, "remove")
         = Len(lineA) + Len(lineB) - 2 * LCS(lineA, lineB, 1, 1)
    /\ Spelled(textDiff.changes, {"keep", "remove"}) = lineA
    /\ Spelled(textDiff.changes, {"keep", "add"}) = lineB

\* The [name, value] entries of a variables or lists object that carry the name
Named(o, name) == {i \in 1..Len(o.v) : At(o.v[i][2], 0) = name}

\* The items of the kind and change for the target whose old or new payload
\* carries the name
ItemsNaming(kind, change, targetName, name) ==
  {i \in ItemsWhere({kind \o "-" \o change}, targetName) :
     At(diff.items[i].old, 0) = name \/ At(diff.items[i].new, 0) = name}

\* What keying by name asks for one name that old and new each hold once
NameKeyed(kind, targetName, old, new, name) ==
  LET o == old.v[CHOOSE i \in Named(old, name) : TRUE][2]
      n == new.v[CHOOSE i \in Named(new, name) : TRUE][2]
  IN  /\ ItemsNaming(kind, "add", targetName, name) = {}
      /\ ItemsNaming(kind, "delete", targetName, name) = {}
      /\ Cardinality(ItemsNaming(kind, "edit", targetName, name))
           = IF JsEqual(o, n) THEN 0 ELSE 1

NamesOf(o) == {At(o.v[i][2], 0) : i \in 1..Len(o.v)}

\* C20: variables and lists are keyed by name: a name that old and new both
\* hold gives no item when its value is the same, whatever the record keys, and
\* exactly one edit item and no add or delete item when its value differs.
KeyedByName ==
  pc = "diffed" =>
    \A i \in 1..Len(diff.rounds) :
      diff.rounds[i].compared =>
        LET old == FindTarget(oldRaw, diff.rounds[i].targetName)
            new == FindTarget(newRaw, diff.rounds[i].targetName)
        IN  /\ \A name \in NamesOf(old.variables) \cap NamesOf(new.variables) :
                 (Cardinality(Named(old.variables, name)) = 1
                    /\ Cardinality(Named(new.variables, name)) = 1) =>
                   NameKeyed("variable", diff.rounds[i].targetName,
                             old.variables, new.variables, name)
            /\ \A name \in NamesOf(old.lists) \cap NamesOf(new.lists) :
                 (Cardinality(Named(old.lists, name)) = 1
                    /\ Cardinality(Named(new.lists, name)) = 1) =>
                   NameKeyed("list", diff.rounds[i].targetName,
                             old.lists, new.lists, name)


\* How many of the scripts carry the fingerprint fp
FingerprintCount(scripts, fp) ==
  Cardinality({i \in 1..Len(scripts) : scripts[i].fingerprint = fp})

SameFingerprintBag(a, b) ==
  \A fp \in {a[i].fingerprint : i \in 1..Len(a)} \cup {b[i].fingerprint : i \in 1..Len(b)} :
    FingerprintCount(a, fp) = FingerprintCount(b, fp)

\* C21: ScriptIR fingerprints do not depend on block ids: when the new block map
\* is an injective renaming of the old one, parse, normalize, buildIR and
\* generateFingerprints give the target the same multiset of ScriptIR
\* fingerprints in both documents, and ScriptMatcher.matchProjects reports no
\* added and no deleted script.
IRRenamingInvisible ==
  (pc = "diffed" /\ IsRenaming) =>
    /\ SameFingerprintBag(ScriptIRs(oldRaw[1]), ScriptIRs(newRaw[1]))
    /\ \A n \in 1..Len(diff.projectMatches) :
         /\ diff.projectMatches[n].result.addedScripts = <<>>
         /\ diff.projectMatches[n].result.deletedScripts = <<>>


\* C22: after generateEnhancedDiff, summary.targetsAdded is the number of target
\* names that the new project has and the old one has not, and
\* summary.targetsDeleted the number of names that only the old project has.
SummaryCountsTargets ==
  pc = "diffed" =>
    /\ summary.targetsAdded = Cardinality(TargetNames(newRaw) \ TargetNames(oldRaw))
    /\ summary.targetsDeleted = Cardinality(TargetNames(oldRaw) \ TargetNames(newRaw))


\* No two places of the sequence hold the same value
Distinct(seq) == \A k, l \in 1..Len(seq) : k # l => seq[k] # seq[l]

Disjoint(a, b) == \A k \in 1..Len(a), l \in 1..Len(b) : a[k] # b[l]

\* C23: matched pairs are bijective in the results of BlockDiffEngine.matchScripts
\* and of ScriptMatcher.matchScripts: no old script and no new script is in more
\* than one matched pair, and no script of a matched pair is also in an
\* unmatched list.  (A script is told from the others of its side by its top
\* block id, a ScriptIR by its place in the target's list.)
MatchedPairsBijective ==
  pc = "diffed" =>
    /\ \A i \in 1..Len(diff.rounds) :
         LET m == diff.rounds[i].scriptMatches
             matchedOld == [k \in 1..Len(m.matchedScripts) |-> m.matchedScripts[k].oldScript.topId]
             matchedNew == [k \in 1..Len(m.matchedScripts) |-> m.matchedScripts[k].newScript.topId]
         IN  /\ Distinct(matchedOld)
             /\ Distinct(matchedNew)
             /\ Disjoint(matchedOld, [k \in 1..Len(m.unmatchedOldScripts) |->
                                        m.unmatchedOldScripts[k].topId])
             /\ Disjoint(matchedNew, [k \in 1..Len(m.unmatchedNewScripts) |->
                                        m.unmatchedNewScripts[k].topId])
    /\ \A n \in 1..Len(diff.projectMatches) :
         LET r == diff.projectMatches[n].result
             matchedOld == [k \in 1..Len(r.matchedScripts) |-> r.matchedScripts[k].old.place]
             matchedNew == [k \in 1..Len(r.matchedScripts) |-> r.matchedScripts[k].new.place]
         IN  /\ Distinct(matchedOld)
             /\ Distinct(matchedNew)
             /\ Disjoint(matchedOld, [k \in 1..Len(r.deletedScripts) |->
                                        r.deletedScripts[k].place])
             /\ Disjoint(matchedNew, [k \in 1..Len(r.addedScripts) |->
                                        r.addedScripts[k].place])

\* C23, its case: two old scripts compete for one new script.  The text matcher
\* has paired one of them with it by similarity and the other, as similar, is
\* left over; the IR matcher has a matched pair beside a deleted script.
CompetingScriptsMatched ==
  /\ pc = "diffed"
  /\ \E i \in 1..Len(diff.rounds) :
       LET m == diff.rounds[i].scriptMatches
       IN  \E k \in 1..Len(m.matchedScripts), l \in 1..Len(diff.rounds[i].oldScripts) :
             /\ m.matchedScripts[k].oldScript.fingerprint
                  # m.matchedScripts[k].newScript.fingerprint
             /\ diff.rounds[i].oldScripts[l].topId # m.matchedScripts[k].oldScript.topId
             /\ Similar(diff.rounds[i].oldScripts[l], m.matchedScripts[k].newScript)
  /\ \E n \in 1..Len(diff.projectMatches) :
       /\ diff.projectMatches[n].result.matchedScripts # <<>>
       /\ diff.projectMatches[n].result.deletedScripts # <<>>


\* C24: in the output of formatDiff every hunk header @@ -s,c +t,e @@ has
\* s = 1 + the number of keep and remove operations of the whole script that
\* precede the hunk's first operation, t = 1 + the number of keep and add
\* operations that precede it, c = the number of keep and remove operations in
\* the hunk and e = the number of keep and add operations in it; and a hunk is
\* written only for a run that holds at least one change.
HunkHeaders ==
  pc = "formatted" =>
    \A h \in 1..Len(formatted) :
      LET hunk   == formatted[h]
          before == SubSeq(textDiff.changes, 1, hunk.first - 1)
      IN  /\ hunk.startOld = 1 + CountType(before, "keep") + CountType(before, "remove")
          /\ hunk.startNew = 1 + CountType(before, "keep") + CountType(before, "add")
          /\ hunk.oldCount = CountType(hunk.changes, "keep") + CountType(hunk.changes, "remove")
          /\ hunk.newCount = CountType(hunk.changes, "keep") + CountType(hunk.changes, "add")
          /\ \E k \in 1..Len(hunk.changes) : hunk.changes[k].type # "keep"


BeforeItem(i) == Replay(baseLoaded, SubSeq(diff.items, 1, i - 1), isReverse)

\* The change that round i makes and the value that plays the old part in it:
\* with --reverse an add item deletes, a delete item adds, and old and new
\* change places
EffectiveOld(i) == IF isReverse THEN ReadItem(diff.items[i]).new ELSE ReadItem(diff.items[i]).old

\* assetId, else md5ext
IdentityOf(entry) ==
  IF Truthy(Get(entry, kAssetId)) THEN Get(entry, kAssetId) ELSE Get(entry, kMd5ext)

\* The costumes or the sounds, as item i names them, of the item's target
CollectionAt(project, i) ==
  IF TypeKind(diff.items[i].type) = "costume"
  THEN FindTarget(project, diff.items[i].targetName).costumes.v
  ELSE FindTarget(project, diff.items[i].targetName).sounds.v

\* Round i deletes from or edits a collection of a target that is there
DeletesOrEdits(i) ==
  /\ TypeKind(diff.items[i].type) \in {"costume", "sound"}
  /\ EffectiveChange(diff.items[i], isReverse) \in {"delete", "edit"}
  /\ ~BeforeItem(i + 1).threw
  /\ HasTarget(BeforeItem(i).project, diff.items[i].targetName)

\* C26: a costume or sound item that is replayed as a delete or an edit changes
\* only entries whose identity (assetId, else md5ext) is that of the item's old
\* value: every other entry of the collection keeps its value and its place
\* among the others, and when no entry has that identity the collection is
\* left as it is.
ReplayKeepsOthers ==
  pc = "rebuilt" =>
    \A i \in 1..Len(diff.items) :
      DeletesOrEdits(i) =>
        LET before == CollectionAt(BeforeItem(i).project, i)
            after  == CollectionAt(BeforeItem(i + 1).project, i)
            others == {k \in 1..Len(before) : IdentityOf(before[k]) # IdentityOf(EffectiveOld(i))}
        IN  /\ EffectiveChange(diff.items[i], isReverse) = "edit" =>
                 /\ Len(after) = Len(before)
                 /\ \A k \in others : after[k] = before[k]
            /\ EffectiveChange(diff.items[i], isReverse) = "delete" =>
                 \E S \in SUBSET (1..Len(before)) :
                   others \subseteq S /\ after = Pick(before, S)
            /\ others = 1..Len(before) => after = before

\* C26, its case: a delete or an edit was replayed on a collection that holds
\* an entry of the item's identity and an entry of another identity
ReplayedBesideOthers ==
  /\ pc = "rebuilt"
  /\ \E i \in 1..Len(diff.items) :
       /\ DeletesOrEdits(i)
       /\ \E k, l \in 1..Len(CollectionAt(BeforeItem(i).project, i)) :
            /\ IdentityOf(CollectionAt(BeforeItem(i).project, i)[k]) = IdentityOf(EffectiveOld(i))
            /\ IdentityOf(CollectionAt(BeforeItem(i).project, i)[l]) # IdentityOf(EffectiveOld(i))


\* Round i replays a script or block item
ScriptOrBlockItem(i) ==
  /\ diff.items[i].type \in ScriptItemTypes \cup BlockItemTypes
  /\ ~BeforeItem(i + 1).threw

Close(a, b) ==
  /\ IF Len(a) < Len(b) THEN 10 * Len(a) > 7 * Len(b) ELSE 10 * Len(b) > 7 * Len(a)
  /\ \A c \in 1..20 : /\ (c <= Len(a)) <=> (c <= Len(b))
                      /\ c <= Len(a) => a[c] = b[c]

\* Greedy first-fit: the old scripts from place i on, each with the first new
\* script not yet taken that is close to it; the pairs by top block id
RECURSIVE FirstFit(_, _, _, _, _)
FirstFit(olds, news, i, taken, pairs) ==
  IF i > Len(olds) THEN pairs
  ELSE LET fits == {j \in (1..Len(news)) \ taken : Close(olds[i].text, news[j].text)}
       IN  IF fits = {} THEN FirstFit(olds, news, i + 1, taken, pairs)
           ELSE FirstFit(olds, news, i + 1, taken \cup {Least(fits)},
                         pairs \cup {<<olds[i].topId, news[Least(fits)].topId>>})

\* The scripts are in ascending order of their fingerprints
Ascending(scripts) ==
  \A k, l \in 1..Len(scripts) :
    k < l => ~TextBefore(scripts[l].fingerprint, scripts[k].fingerprint, 1)

\* The scripts whose fingerprint no script of the other side has
LeftOver(scripts, others) ==
  Pick(scripts, {k \in 1..Len(scripts) :
                   \A l \in 1..Len(others) : others[l].fingerprint # scripts[k].fingerprint})

\* The matched pairs that the exact phase did not make
HeuristicPairs(m) ==
  {<<m.matchedScripts[k].oldScript.topId, m.matchedScripts[k].newScript.topId>> :
     k \in {j \in 1..Len(m.matchedScripts) :
              m.matchedScripts[j].oldScript.fingerprint
                # m.matchedScripts[j].newScript.fingerprint}}

IsMoved ==
  /\ Len(oldRaw) = 1
  /\ oldRaw[1].blocks # <<>>
  /\ newRaw = <<[oldRaw[1] EXCEPT !.blocks = Moved(@)]>>

\* C29: incidental metadata causes no edits: when the two documents differ only
\* in the x and y and in the parent pointers of their blocks, parseSpriteScripts
\* gives the same texts and fingerprints for both, the ScriptIR fingerprints
\* are the same, and generateDiff returns no items.
MetadataInvisible ==
  (pc = "diffed" /\ IsMoved) =>
    /\ \A i \in 1..Len(diff.rounds) :
         TextsAndFingerprints(diff.rounds[i].oldScripts)
           = TextsAndFingerprints(diff.rounds[i].newScripts)
    /\ [k \in 1..Len(ScriptIRs(oldRaw[1])) |-> ScriptIRs(oldRaw[1])[k].fingerprint]
         = [k \in 1..Len(ScriptIRs(newRaw[1])) |-> ScriptIRs(newRaw[1])[k].fingerprint]
    /\ diff.items = <<>>


\* How many of the scripts have the text
TextCount(scripts, text) == Cardinality({k \in 1..Len(scripts) : scripts[k].text = text})

SameTextBag(a, b) ==
  \A text \in {a[k].text : k \in 1..Len(a)} \cup {b[k].text : k \in 1..Len(b)} :
    TextCount(a, text) = TextCount(b, text)

\* C30: an empty diff means equal documents: when generateDiff returns no
\* items, the two documents have the same target names and every target has,
\* in both, the same multiset of script texts and equal variables, lists,
\* costumes and sounds.
EmptyDiffMeansEqual ==
  (pc = "diffed" /\ diff.items = <<>>) =>
    /\ TargetNames(oldRaw) = TargetNames(newRaw)
    /\ \A i \in 1..Len(diff.rounds) :
         /\ SameTextBag(diff.rounds[i].oldScripts, diff.rounds[i].newScripts)
         /\ diff.rounds[i].compared =>
              \A c \in 1..4 :
                JsEqual(Collections(FindTarget(oldRaw, diff.rounds[i].targetName))[c],
                        Collections(FindTarget(newRaw, diff.rounds[i].targetName))[c])

====
